---- MODULE Spec2Model ----
(***************************************************************************)
(* Model of the tapioca package of huninn: the ring buffer                 *)
(* (CircularBuffer), the column-addressed Entry queries and the scrollable *)
(* Component built on both, and the styles: the SGR parser (parseAnsiCode), *)
(* the renderer (style.Render) and the scanner of NewEntry.                *)
(*                                                                         *)
(* An Entry is modelled by the display widths of its code points, a        *)
(* sequence over {1, 2} (2 = East-Asian wide).  Styles do not occupy       *)
(* columns and are left out of this part of the model.  A rendered line is *)
(* a sequence of cells: 1 and 2 are code points of the entry with that     *)
(* display width, 0 is a padding space (one column).                       *)
(***************************************************************************)
EXTENDS Integers, Sequences, FiniteSets, TLC

VARIABLES
    hScroll, vScroll,       \* Component.hScroll / vScroll
    width, height,          \* Component.width / height
    x, y,                   \* Component.x / y
    entries,                \* Component.entries: the CircularBuffer
    lines, maxLineWidth,    \* Component cached info
    out,                    \* result of the last View() call, NoView otherwise
    op,                     \* the operation that produced the current state
    appended,               \* items appended since construction, while only Append was called
    pure,                   \* TRUE while only Append was called since construction
    heap,                   \* the style objects allocated so far: a *style is an index, 0 is nil
    scan,                   \* NewEntry's locals: data, i, styledData, currentStyle
    got,                    \* the slice the last GetAll() call returned
    block,                  \* a pearl.Block with its embedded Scrollable
    Reverse,                \* LogPanel.Reverse
    layout,                 \* a tree of FixedLayout and BorderedBox components
    runner                  \* the goroutines and channels of the runner LSNI returns

vars == <<hScroll, vScroll, width, height, x, y, entries, lines, maxLineWidth,
          out, op, appended, pure, heap, scan, got, block, Reverse, layout, runner>>

(***************************************************************************)
(* Bounds                                                                  *)
(***************************************************************************)
MaxCap == 3         \* largest capacity argument given to the bare ring buffer
MaxEntries == 2     \* largest capacity argument given to a Component
MaxHist == 5        \* longest tracked run of Append calls
MaxWidth == 3       \* largest ResizeMsg.Width
MaxHeight == 2      \* largest ResizeMsg.Height
ScrollHuge == 6     \* a scroll amount larger than every extent
IntBits == 5        \* width of int and uint, scaled down
MaxLen == 4         \* most code points of an entry under test
MaxArg == 5         \* largest width and start column given to an entry

\* the zero value of *Entry (a nil pointer), as left by make([]T, n)
Nil == <<0>>

\* the entries the producers append: empty, one narrow code point,
\* wide-narrow-wide (width 5, wraps and is cut at widths 2 and 3)
EntryPool == {<<>>, <<1>>, <<2, 1, 2>>}

Min(a, b) == IF a < b THEN a ELSE b
Max(a, b) == IF a > b THEN a ELSE b

(***************************************************************************)
(* CircularBuffer (queue.go).  cb.data is 1-indexed here: Go's data[i] is  *)
(* cb.data[i + 1].                                                         *)
(***************************************************************************)
NewCircularBuffer(size) ==
    LET s == IF size < 1 THEN 1 ELSE size
    IN  [data |-> [i \in 1..(s + 1) |-> Nil], start |-> 0, end |-> 0]

CircularBuffer_Reset(cb) == [cb EXCEPT !.start = 0, !.end = 0]

\* mutant: the full buffer does not advance start (no eviction)
CircularBuffer_Append_NoEvict(cb, item) ==
    LET n == Len(cb.data)
        newEnd == (cb.end + 1) % n
    IN  [data |-> [cb.data EXCEPT ![cb.end + 1] = item],
         start |-> cb.start,
         end |-> newEnd]

CircularBuffer_Append(cb, item) ==
    LET n == Len(cb.data)
        newEnd == (cb.end + 1) % n
    IN  [data |-> [cb.data EXCEPT ![cb.end + 1] = item],
         start |-> IF newEnd = cb.start THEN (cb.start + 1) % n ELSE cb.start,
         end |-> newEnd]

\* mutant: the full buffer keeps its end (the item lands on the newest element's slot side)
CircularBuffer_Prepend_NoEvict(cb, item) ==
    LET n == Len(cb.data)
        newStart == (cb.start - 1 + n) % n
    IN  [data |-> [cb.data EXCEPT ![newStart + 1] = item],
         start |-> newStart,
         end |-> IF newStart = cb.end THEN (cb.end + 1) % n ELSE cb.end]

CircularBuffer_Prepend(cb, item) ==
    LET n == Len(cb.data)
        newStart == (cb.start - 1 + n) % n
    IN  [data |-> [cb.data EXCEPT ![newStart + 1] = item],
         start |-> newStart,
         end |-> IF newStart = cb.end THEN (cb.end - 1 + n) % n ELSE cb.end]

\* nil and the empty slice are both the empty sequence
GetAll(cb) ==
    IF cb.start = cb.end THEN <<>>
    ELSE IF cb.end > cb.start
         THEN SubSeq(cb.data, cb.start + 1, cb.end)
         ELSE SubSeq(cb.data, cb.start + 1, Len(cb.data)) \o SubSeq(cb.data, 1, cb.end)

\* mutant: the wrapped case forgets the part before end
Size_NoWrap(cb) ==
    IF cb.end >= cb.start THEN cb.end - cb.start
    ELSE Len(cb.data) - cb.start

Size(cb) ==
    IF cb.end >= cb.start THEN cb.end - cb.start
    ELSE Len(cb.data) - cb.start + cb.end

Capacity(cb) == Len(cb.data) - 1

\* mutant: Resize keeps the tail (the newest elements) instead of the head
CircularBuffer_Resize_KeepTail(cb, newSize) ==
    LET s == IF newSize < 1 THEN 1 ELSE newSize
        arr == GetAll(cb)
        l == Len(arr)
        end == Min(l, s)
    IN  IF s = Capacity(cb) THEN cb
        ELSE [data |-> [i \in 1..(s + 1) |-> IF i <= end THEN arr[l - end + i] ELSE Nil],
              start |-> 0,
              end |-> end]

CircularBuffer_Resize(cb, newSize) ==
    LET s == IF newSize < 1 THEN 1 ELSE newSize
        arr == GetAll(cb)
        l == Len(arr)
        end == Min(l, s)
    IN  IF s = Capacity(cb) THEN cb
        ELSE [data |-> [i \in 1..(s + 1) |-> IF i <= end THEN arr[i] ELSE Nil],
              start |-> 0,
              end |-> end]

(***************************************************************************)
(* The ring buffer on its own: a CircularBuffer[*Entry] driven directly.   *)
(***************************************************************************)
\* no NewEntry call is in progress
NoScan == [pc |-> "none"]

\* GetAll() was not called yet
NoSlice == [kind |-> "none"]

\* the parts of the model a specification does not use
NoBlock == [kind |-> "none"]
NoLayout == [kind |-> "none"]
NoRunner == [kind |-> "none"]

Unused ==
    /\ got = NoSlice /\ block = NoBlock /\ Reverse = FALSE
    /\ layout = NoLayout /\ runner = NoRunner

UnusedIdle == UNCHANGED <<got, block, Reverse, layout, runner>>

NoView == [panic |-> FALSE, lines |-> <<>>, called |-> FALSE]

CapArgs == (-1)..MaxCap

\* what op remembers of the buffer before the call: size, capacity, wrapped
PreOf(cb) == <<Size(cb), Capacity(cb), IF cb.end < cb.start THEN 1 ELSE 0>>

ComponentIdle ==
    UNCHANGED <<hScroll, vScroll, width, height, x, y, lines, maxLineWidth, out,
                heap, scan, got, block, Reverse, layout, runner>>

InitCB ==
    /\ hScroll = FALSE /\ vScroll = FALSE
    /\ width = 0 /\ height = 0 /\ x = 0 /\ y = 0
    /\ lines = 0 /\ maxLineWidth = 0
    /\ out = NoView
    /\ \E n \in CapArgs :
          /\ entries = NewCircularBuffer(n)
          /\ op = [name |-> "NewCircularBuffer", arg |-> <<n>>, pre |-> <<>>]
    /\ appended = <<>>
    /\ pure = TRUE
    /\ heap = <<>>
    /\ scan = NoScan
    /\ Unused

CBAppend(item) ==
    /\ pure => Len(appended) < MaxHist
    /\ entries' = CircularBuffer_Append(entries, item)
    /\ op' = [name |-> "Append", arg |-> item, pre |-> PreOf(entries)]
    /\ appended' = IF pure THEN Append(appended, item) ELSE <<>>
    /\ UNCHANGED pure
    /\ ComponentIdle

CBPrepend(item) ==
    /\ entries' = CircularBuffer_Prepend(entries, item)
    /\ op' = [name |-> "Prepend", arg |-> item, pre |-> PreOf(entries)]
    /\ appended' = <<>>
    /\ pure' = FALSE
    /\ ComponentIdle

CBReset ==
    /\ entries' = CircularBuffer_Reset(entries)
    /\ op' = [name |-> "Reset", arg |-> <<>>, pre |-> PreOf(entries)]
    /\ appended' = <<>>
    /\ pure' = FALSE
    /\ ComponentIdle

Coerce(n) == IF n < 1 THEN 1 ELSE n

\* the slice GetAll() returns: a view of data[lo:hi] when shared, a new
\* array holding own when not.  append(cb.data[cb.start:], cb.data[:cb.end]...)
\* has no room left in cb.data[cb.start:], so it allocates when it adds an
\* element and returns its first argument when cb.end is 0.
SliceOf(cb) ==
    IF cb.start = cb.end THEN [kind |-> "nil"]
    ELSE IF cb.end > cb.start
         THEN [kind |-> "slice", shared |-> TRUE, lo |-> cb.start, hi |-> cb.end,
               own |-> <<>>, snapshot |-> GetAll(cb)]
    ELSE IF cb.end = 0
         THEN [kind |-> "slice", shared |-> TRUE, lo |-> cb.start,
               hi |-> Len(cb.data), own |-> <<>>, snapshot |-> GetAll(cb)]
    ELSE [kind |-> "slice", shared |-> FALSE, lo |-> 0, hi |-> 0,
          own |-> GetAll(cb), snapshot |-> GetAll(cb)]

\* what a slice returned earlier holds now
SliceNow(g, cb) ==
    IF g.kind # "slice" THEN <<>>
    ELSE IF g.shared THEN SubSeq(cb.data, g.lo + 1, g.hi)
    ELSE g.own

\* cb.data = newData in Resize: a slice that shared the old array keeps it,
\* and the buffer writes to it no more
SliceAfterResize(g, cb, newSize) ==
    IF g.kind = "slice" /\ g.shared /\ Coerce(newSize) # Capacity(cb)
    THEN [g EXCEPT !.shared = FALSE, !.own = SliceNow(g, cb)]
    ELSE g

CBResize(m) ==
    /\ entries' = CircularBuffer_Resize(entries, m)
    /\ op' = [name |-> "Resize", arg |-> <<m>>, pre |-> PreOf(entries)]
    /\ appended' = IF pure THEN appended ELSE <<>>
    /\ pure' = FALSE
    /\ ComponentIdle

NextCB ==
    \/ \E item \in EntryPool : CBAppend(item)
    \/ \E item \in EntryPool : CBPrepend(item)
    \/ CBReset
    \/ \E m \in CapArgs : CBResize(m)

SpecCB == InitCB /\ [][NextCB]_vars

(***************************************************************************)
(* The ring buffer and a slice GetAll() returned (SpecSnapshot)            *)
(***************************************************************************)
\* the capacities and the items of the buffer a slice is taken of
SnapCaps == 1..2
SnapItems == {<<1>>, <<2, 1, 2>>}

SnapIdle ==
    UNCHANGED <<hScroll, vScroll, width, height, x, y, lines, maxLineWidth, out,
                appended, pure, heap, scan, block, Reverse, layout, runner>>

InitSnapshot ==
    /\ hScroll = FALSE /\ vScroll = FALSE
    /\ width = 0 /\ height = 0 /\ x = 0 /\ y = 0
    /\ lines = 0 /\ maxLineWidth = 0
    /\ out = NoView
    /\ \E n \in SnapCaps : entries = NewCircularBuffer(n)
    /\ op = [name |-> "NewCircularBuffer", arg |-> <<>>, pre |-> <<>>]
    /\ appended = <<>>
    /\ pure = FALSE
    /\ heap = <<>>
    /\ scan = NoScan
    /\ Unused

\* a method of the buffer is called; g is what the slice returned last is
\* after it
SnapBecomes(name, cb, g) ==
    /\ entries' = cb
    /\ got' = g
    /\ op' = [name |-> name, arg |-> <<>>, pre |-> <<>>]
    /\ SnapIdle

SnapAppend ==
    /\ \E item \in SnapItems :
          SnapBecomes("Append", CircularBuffer_Append(entries, item), got)

SnapPrepend ==
    /\ \E item \in SnapItems :
          SnapBecomes("Prepend", CircularBuffer_Prepend(entries, item), got)

SnapReset ==
    /\ SnapBecomes("Reset", CircularBuffer_Reset(entries), got)

SnapResize ==
    /\ \E m \in SnapCaps :
          SnapBecomes("Resize", CircularBuffer_Resize(entries, m),
                      SliceAfterResize(got, entries, m))

SnapGetAll ==
    /\ SnapBecomes("GetAll", entries, SliceOf(entries))

NextSnapshot ==
    \/ SnapAppend
    \/ SnapPrepend
    \/ SnapReset
    \/ SnapResize
    \/ SnapGetAll

SpecSnapshot == InitSnapshot /\ [][NextSnapshot]_vars

(***************************************************************************)
(* Ring buffer claims (checked under SpecCB)                               *)
(***************************************************************************)
LastN(s, n) == SubSeq(s, Len(s) - n + 1, Len(s))
FirstN(s, n) == SubSeq(s, 1, n)

\* C5: after N > C calls to Append on a fresh buffer of capacity C, GetAll()
\* has length C and is the last C appended items in insertion order, and
\* Size() = C.
C5_OverwriteLaw ==
    (pure /\ Len(appended) > Capacity(entries)) =>
        /\ Len(GetAll(entries)) = Capacity(entries)
        /\ GetAll(entries) = LastN(appended, Capacity(entries))
        /\ Size(entries) = Capacity(entries)

C5_Witness ==
    /\ pure
    /\ Capacity(entries) = 2
    /\ Len(appended) = 4
    /\ appended[3] # appended[4]
    /\ appended[1] # appended[3]

C7_SizeInvariant ==
    /\ Capacity(entries) >= 1
    /\ 0 <= Size(entries) /\ Size(entries) <= Capacity(entries)
    /\ Len(GetAll(entries)) = Size(entries)
    /\ 0 <= entries.start /\ entries.start < Len(entries.data)
    /\ 0 <= entries.end /\ entries.end < Len(entries.data)

C7_Witness ==
    /\ op.name = "Resize" /\ op.arg[1] < 1
    /\ op.pre[1] = 3 /\ op.pre[3] = 1
    /\ Size(entries) = 1

C9_ResizeAsTested ==
    [][LET g == GetAll(entries)
           m == Coerce(op'.arg[1])
       IN  /\ op'.name = "Resize" =>
                /\ Capacity(entries') = m
                /\ GetAll(entries') = FirstN(g, Min(Len(g), m))
                /\ (m >= Capacity(entries) => GetAll(entries') = g)
           /\ op'.name = "Append" =>
                /\ Capacity(entries') = Capacity(entries)
                /\ Size(entries') = Min(Size(entries) + 1, Capacity(entries))
      ]_vars

C9_Witness ==
    /\ op.name = "Resize" /\ op.arg[1] = 2
    /\ op.pre = <<3, 3, 1>>
    /\ Size(entries) = 2
    /\ GetAll(entries)[1] # GetAll(entries)[2]

(***************************************************************************)
(* Entry: width model and column-addressed queries.  Indices and columns   *)
(* are 0-based as in the Go code; Go's offsets[i] is offsets[i + 1] here.  *)
(***************************************************************************)
RECURSIVE SumSeq(_)
SumSeq(s) == IF s = <<>> THEN 0 ELSE Head(s) + SumSeq(Tail(s))

\* cumulative display widths, one per code point
computeRuneEndOffsets(e) == [i \in 1..Len(e) |-> SumSeq(SubSeq(e, 1, i))]

runeEndOffsets(e) == computeRuneEndOffsets(e)

Entry_Width(e) ==
    LET offsets == runeEndOffsets(e)
    IN  IF Len(offsets) = 0 THEN 0 ELSE offsets[Len(offsets)]

\* display width of a rendered line: what NewEntry(line).Width() measures
CellWidth(c) == IF c = 0 THEN 1 ELSE c
LineWidth(line) == SumSeq([i \in 1..Len(line) |-> CellWidth(line[i])])

Spaces(n) == [i \in 1..n |-> 0]

computeRuneSizeFromOffset(offsets, idx) ==
    LET l == Len(offsets)
    IN  IF idx < 0 \/ idx >= l THEN 1
        ELSE IF idx = 0 THEN offsets[1]
        ELSE offsets[idx + 1] - offsets[idx]

\* sort.Search(n, f): the smallest i in [0, n) with f(i), or n
sortSearch(n, f(_)) ==
    IF \E i \in 0..(n - 1) : f(i)
    THEN CHOOSE i \in 0..(n - 1) : f(i) /\ \A j \in 0..(i - 1) : ~f(j)
    ELSE n

\* mutant: a wide code point that straddles the right edge is kept whole
computeStartAndEndForShift_NoEndCut(offsets, startCol, w) ==
    LET n == Len(offsets)
        startIdx0 == sortSearch(n, LAMBDA i : offsets[i + 1] - 1 >= startCol)
        curSize0 == computeRuneSizeFromOffset(offsets, startIdx0)
        cutStart == curSize0 > 1 /\ offsets[startIdx0 + 1] - 1 = startCol
        startIdx == IF cutStart THEN startIdx0 + 1 ELSE startIdx0
        endCol == startCol + w - 1
        endIdx0 == Min(sortSearch(n, LAMBDA i : offsets[i + 1] - 1 >= endCol), n - 1)
    IN  IF w = 1 /\ curSize0 > 1
        THEN [startIdx |-> startIdx0, endIdx |-> startIdx0 + 1,
              hasPrefix |-> FALSE, hasSuffix |-> FALSE]
        ELSE [startIdx |-> startIdx, endIdx |-> endIdx0 + 1,
              hasPrefix |-> cutStart, hasSuffix |-> FALSE]

\* mutant: a wide code point that straddles the right edge is dropped only
\* when the window is one column
computeStartAndEndForShift_EndCutAtOne(offsets, startCol, w) ==
    LET n == Len(offsets)
        startIdx0 == sortSearch(n, LAMBDA i : offsets[i + 1] - 1 >= startCol)
        curSize0 == computeRuneSizeFromOffset(offsets, startIdx0)
        cutStart == curSize0 > 1 /\ offsets[startIdx0 + 1] - 1 = startCol
        startIdx == IF cutStart THEN startIdx0 + 1 ELSE startIdx0
        endCol == startCol + w - 1
        endIdx0 == Min(sortSearch(n, LAMBDA i : offsets[i + 1] - 1 >= endCol), n - 1)
        curSize1 == computeRuneSizeFromOffset(offsets, endIdx0)
        cutEnd == w = 1 /\ curSize1 > 1 /\ offsets[endIdx0 + 1] - 1 > endCol
        endIdx == IF cutEnd THEN endIdx0 - 1 ELSE endIdx0
    IN  IF w = 1 /\ curSize0 > 1
        THEN [startIdx |-> startIdx0, endIdx |-> startIdx0 + 1,
              hasPrefix |-> FALSE, hasSuffix |-> FALSE]
        ELSE [startIdx |-> startIdx, endIdx |-> endIdx + 1,
              hasPrefix |-> cutStart, hasSuffix |-> cutEnd]

computeStartAndEndForShift(offsets, startCol, w) ==
    LET n == Len(offsets)
        startIdx0 == sortSearch(n, LAMBDA i : offsets[i + 1] - 1 >= startCol)
        curSize0 == computeRuneSizeFromOffset(offsets, startIdx0)
        cutStart == curSize0 > 1 /\ offsets[startIdx0 + 1] - 1 = startCol
        startIdx == IF cutStart THEN startIdx0 + 1 ELSE startIdx0
        endCol == startCol + w - 1
        endIdx0 == Min(sortSearch(n, LAMBDA i : offsets[i + 1] - 1 >= endCol), n - 1)
        curSize1 == computeRuneSizeFromOffset(offsets, endIdx0)
        cutEnd == curSize1 > 1 /\ offsets[endIdx0 + 1] - 1 > endCol
        endIdx == IF cutEnd THEN endIdx0 - 1 ELSE endIdx0
    IN  IF w = 1 /\ curSize0 > 1
        THEN [startIdx |-> startIdx0, endIdx |-> startIdx0 + 1,
              hasPrefix |-> FALSE, hasSuffix |-> FALSE]
        ELSE [startIdx |-> startIdx, endIdx |-> endIdx + 1,
              hasPrefix |-> cutStart, hasSuffix |-> cutEnd]

\* the code points start..end-1, styles left out
styledSubstring(e, start, end) ==
    IF start >= end THEN <<>>
    ELSE IF Len(e) = 0 THEN <<>>
    ELSE SubSeq(e, start + 1, end)

StyledString(e) == styledSubstring(e, 0, Len(e))

\* the tail of styledShift: the cut r with its padding spaces
styledShiftCut(e, r) ==
    (IF r.hasPrefix THEN <<0>> ELSE <<>>)
    \o styledSubstring(e, r.startIdx, r.endIdx)
    \o (IF r.hasSuffix THEN <<0>> ELSE <<>>)

\* mutant: a negative start column is not raised to 0
styledShift_NoFloor(e, startCol, w) ==
    IF Len(e) = 0 THEN <<>>
    ELSE LET offsets == runeEndOffsets(e)
             totalWidth == offsets[Len(offsets)]
             w1 == Min(Max(1, w), totalWidth)
             s0 == startCol
             s1 == IF s0 + w1 > totalWidth THEN totalWidth - w1 ELSE s0
         IN  IF s1 = 0 /\ w1 = totalWidth THEN StyledString(e)
             ELSE styledShiftCut(e, computeStartAndEndForShift(offsets, s1, w1))

styledShift(e, startCol, w) ==
    IF Len(e) = 0 THEN <<>>
    ELSE LET offsets == runeEndOffsets(e)
             totalWidth == offsets[Len(offsets)]
             w1 == Min(Max(1, w), totalWidth)
             s0 == Max(0, startCol)
             s1 == IF s0 + w1 > totalWidth THEN totalWidth - w1 ELSE s0
         IN  IF s1 = 0 /\ w1 = totalWidth THEN StyledString(e)
             ELSE styledShiftCut(e, computeStartAndEndForShift(offsets, s1, w1))

StyledShift(e, startCol, w) == styledShift(e, startCol, w)

\* mutant: the suffix is taken from the width as given, before the prefix
\* is counted off
StyledMove_LateSuffix(e, startCol, w) ==
    LET totalWidth == Entry_Width(e)
        prefix == IF startCol < 0 THEN -startCol ELSE 0
        s1 == IF startCol < 0 THEN 0 ELSE startCol
        w1 == IF startCol < 0 THEN w - prefix ELSE w
        suffix == IF s1 + w > totalWidth THEN s1 + w - totalWidth ELSE 0
        w2 == w1 - suffix
    IN  Spaces(prefix) \o StyledShift(e, s1, w2) \o Spaces(suffix)

StyledMove(e, startCol, w) ==
    LET totalWidth == Entry_Width(e)
        prefix == IF startCol < 0 THEN -startCol ELSE 0
        s1 == IF startCol < 0 THEN 0 ELSE startCol
        w1 == IF startCol < 0 THEN w - prefix ELSE w
        suffix == IF s1 + w1 > totalWidth THEN s1 + w1 - totalWidth ELSE 0
        w2 == w1 - suffix
    IN  Spaces(prefix) \o StyledShift(e, s1, w2) \o Spaces(suffix)

\* the loop of computeWarpPoints, from column startPos on
RECURSIVE warpLoop(_, _, _, _)

\* one pass of the loop body, r being the cut computed for startPos
warpStep(offsets, w, startPos, ret, r) ==
    LET realWidth0 == offsets[r.endIdx] - offsets[r.startIdx + 1]
                      + computeRuneSizeFromOffset(offsets, r.startIdx)
        \* a suffix space is counted and then taken back
        nextPos == IF r.hasSuffix THEN startPos + (realWidth0 + 1) - 1
                   ELSE startPos + realWidth0
    IN  warpLoop(offsets, w, nextPos,
                 Append(ret, [start |-> r.startIdx, end |-> r.endIdx,
                              hasSuffix |-> r.hasSuffix]))

warpLoop(offsets, w, startPos, ret) ==
    IF startPos < offsets[Len(offsets)]
    THEN warpStep(offsets, w, startPos, ret,
                  computeStartAndEndForShift(offsets, startPos, w))
    ELSE ret

computeWarpPoints(e, w) ==
    LET offsets == runeEndOffsets(e)
        n == Len(offsets)
    IN  IF w < 1 THEN <<>>
        ELSE IF Entry_Width(e) <= w
             THEN <<[start |-> 0, end |-> n, hasSuffix |-> FALSE]>>
             ELSE warpLoop(offsets, w, 0, <<>>)

Entry_Lines(e, w) == Len(computeWarpPoints(e, w))

substringWidth(e, start, end) ==
    LET offsets == runeEndOffsets(e)
        end1 == Min(end - 1, Len(e))
    IN  offsets[end1 + 1] - offsets[start + 1] + computeRuneSizeFromOffset(offsets, start)

\* the lines of StyledWarps for the warp points of e
StyledWarpsOf(e, points) ==
    [i \in 1..Len(points) |->
        styledSubstring(e, points[i].start, points[i].end)
        \o (IF points[i].hasSuffix THEN <<0>> ELSE <<>>)]

StyledWarps(e, wArg) ==
    IF Len(e) < 1 THEN << <<>> >>
    ELSE StyledWarpsOf(e, computeWarpPoints(e, Max(1, wArg)))

\* mutant: the last line is left as it was cut
StyledBlockLines_NoPad(e, w, points, lw) ==
    [i \in 1..Len(points) |->
        styledSubstring(e, points[i].start, points[i].end)
        \o (IF points[i].hasSuffix THEN <<0>> ELSE <<>>)]

\* the lines of StyledBlock for the warp points of e at width w; lw is the
\* width of the last one, which alone is padded
StyledBlockLines(e, w, points, lw) ==
    [i \in 1..Len(points) |->
        IF i < Len(points)
        THEN styledSubstring(e, points[i].start, points[i].end)
             \o (IF points[i].hasSuffix THEN <<0>> ELSE <<>>)
        ELSE styledSubstring(e, points[i].start, points[i].end)
             \o Spaces(Max(w, lw) - lw)]

StyledBlockOf(e, w, points) ==
    StyledBlockLines(e, w, points,
        substringWidth(e, points[Len(points)].start, points[Len(points)].end))

StyledBlock(e, wArg) ==
    IF Len(e) < 1 THEN << <<>> >>
    ELSE StyledBlockOf(e, Max(1, wArg), computeWarpPoints(e, Max(1, wArg)))

(***************************************************************************)
(* Component (component.go, component_impl.go)                             *)
(***************************************************************************)
RECURSIVE SumLines(_, _)
SumLines(ents, w) ==
    IF ents = <<>> THEN 0 ELSE Entry_Lines(Head(ents), w) + SumLines(Tail(ents), w)

RECURSIVE MaxWidthOf(_, _)
MaxWidthOf(ents, m) ==
    IF ents = <<>> THEN m
    ELSE MaxWidthOf(Tail(ents), IF m < Entry_Width(Head(ents)) THEN Entry_Width(Head(ents)) ELSE m)

\* mutant: the line count is not raised to the physical height
recomputeLines_NoFloor(cb, w, h) ==
    IF hScroll THEN Size(cb) ELSE SumLines(GetAll(cb), w)

\* c.lines for buffer cb and size w x h
recomputeLines(cb, w, h) ==
    Max(IF hScroll THEN Size(cb) ELSE SumLines(GetAll(cb), w), h)

\* mutant: the widest entry is ignored
recomputeMaxLineWidth_WidthOnly(cb, w) == w

\* c.maxLineWidth for buffer cb and width w
recomputeMaxLineWidth(cb, w) ==
    IF ~hScroll THEN w ELSE MaxWidthOf(GetAll(cb), w)

\* recomputeCachedInfo, for the buffer and size the state will hold
recomputeCachedInfo(cb, w, h) ==
    /\ lines' = recomputeLines(cb, w, h)
    /\ maxLineWidth' = recomputeMaxLineWidth(cb, w)

NoPre == <<>>

\* the texts the producers send: the empty line, one narrow code point and
\* two wide code points (width 4: wraps at widths 2 and 3, cut at width 3)
Texts == {<<>>, <<1>>, <<2, 2>>}

Init ==
    /\ hScroll \in BOOLEAN /\ vScroll \in BOOLEAN
    /\ width = 0 /\ height = 0 /\ x = 0 /\ y = 0
    /\ lines = 0 /\ maxLineWidth = 0
    /\ out = NoView
    /\ \E n \in 0..MaxEntries :
          /\ entries = NewCircularBuffer(n)
          /\ op = [name |-> "NewComponent", arg |-> <<n>>, pre |-> NoPre]
    /\ appended = <<>>
    /\ pure = FALSE
    /\ heap = <<>>
    /\ scan = NoScan
    /\ Unused

Ghosts == /\ out' = NoView
          /\ UNCHANGED <<appended, pure, heap, scan>>
          /\ UnusedIdle

\* what op remembers of an insertion: whether the buffer was full before it
WasFull == <<IF Size(entries) = Capacity(entries) THEN 1 ELSE 0>>

\* mutant: the view follows the newest entry
Component_Append_Follow(str) ==
    /\ entries' = CircularBuffer_Append(entries, str)
    /\ recomputeCachedInfo(entries', width, height)
    /\ y' = IF vScroll THEN lines' - height ELSE y
    /\ op' = [name |-> "Append", arg |-> str, pre |-> WasFull]
    /\ UNCHANGED <<hScroll, vScroll, width, height, x>>
    /\ Ghosts

Component_Append(str) ==
    /\ entries' = CircularBuffer_Append(entries, str)
    /\ recomputeCachedInfo(entries', width, height)
    /\ op' = [name |-> "Append", arg |-> str, pre |-> WasFull]
    /\ UNCHANGED <<hScroll, vScroll, width, height, x, y>>
    /\ Ghosts

Component_Prepend(str) ==
    /\ entries' = CircularBuffer_Prepend(entries, str)
    /\ recomputeCachedInfo(entries', width, height)
    /\ op' = [name |-> "Prepend", arg |-> str, pre |-> WasFull]
    /\ UNCHANGED <<hScroll, vScroll, width, height, x, y>>
    /\ Ghosts

Component_Clear ==
    /\ entries' = CircularBuffer_Reset(entries)
    /\ recomputeCachedInfo(entries', width, height)
    /\ op' = [name |-> "Clear", arg |-> <<>>, pre |-> NoPre]
    /\ UNCHANGED <<hScroll, vScroll, width, height, x, y>>
    /\ Ghosts

Component_ResizeBuffer(newSize) ==
    /\ entries' = CircularBuffer_Resize(entries, newSize)
    /\ op' = [name |-> "ResizeBuffer", arg |-> <<newSize>>, pre |-> NoPre]
    /\ UNCHANGED <<hScroll, vScroll, width, height, x, y, lines, maxLineWidth>>
    /\ Ghosts

\* Go's int and uint have the same width; IntBits stands for it.  wrapInt
\* is the two's complement value an arithmetic result wraps to, toInt the
\* conversion int(msg) of an unsigned message value
wrapInt(v) == ((v + 2^(IntBits - 1)) % 2^IntBits) - 2^(IntBits - 1)
toInt(u) == wrapInt(u)

\* the tail of UpdateInto: "Ensure constraints are maintained"
Constrain(nx, ny) ==
    /\ x' = IF ~hScroll THEN 0 ELSE nx
    /\ y' = IF ~vScroll THEN 0 ELSE ny

\* mutant: the resize keeps the scroll position
updateResize_KeepPosition(msg) ==
    /\ width' = msg.arg[1] /\ height' = msg.arg[2]
    /\ recomputeCachedInfo(entries, msg.arg[1], msg.arg[2])
    /\ Constrain(x, y)

\* case ResizeMsg of UpdateInto, with the constraints that follow the switch
updateResize(msg) ==
    /\ width' = msg.arg[1] /\ height' = msg.arg[2]
    /\ recomputeCachedInfo(entries, msg.arg[1], msg.arg[2])
    /\ Constrain(0, 0)

\* mutant: ScrollTopMsg goes to the top left corner
updateScroll_TopHome(msg) ==
    CASE msg.type = "ScrollUpMsg" ->
           Constrain(x, IF vScroll THEN Max(wrapInt(y - toInt(msg.arg[1])), 0) ELSE y)
      [] msg.type = "ScrollDownMsg" ->
           Constrain(x, IF vScroll
                        THEN (IF wrapInt(y + toInt(msg.arg[1])) > lines - height
                              THEN lines - height
                              ELSE wrapInt(y + toInt(msg.arg[1])))
                        ELSE y)
      [] msg.type = "ScrollLeftMsg" ->
           Constrain(IF hScroll THEN Max(wrapInt(x - toInt(msg.arg[1])), 0) ELSE x, y)
      [] msg.type = "ScrollRightMsg" ->
           Constrain(IF hScroll
                     THEN (IF wrapInt(x + toInt(msg.arg[1])) > maxLineWidth - width
                           THEN maxLineWidth - width
                           ELSE wrapInt(x + toInt(msg.arg[1])))
                     ELSE x, y)
      [] msg.type = "ScrollTopMsg" -> Constrain(0, IF vScroll THEN 0 ELSE y)
      [] msg.type = "ScrollBottomMsg" ->
           Constrain(x, IF vScroll THEN lines - height ELSE y)
      [] msg.type = "ScrollBeginMsg" -> Constrain(IF hScroll THEN 0 ELSE x, y)
      [] msg.type = "ScrollEndMsg" ->
           Constrain(IF hScroll THEN maxLineWidth - width ELSE x, y)

\* the scroll cases of UpdateInto, with the constraints that follow the switch
updateScroll(msg) ==
    CASE msg.type = "ScrollUpMsg" ->
           Constrain(x, IF vScroll THEN Max(wrapInt(y - toInt(msg.arg[1])), 0) ELSE y)
      [] msg.type = "ScrollDownMsg" ->
           Constrain(x, IF vScroll
                        THEN (IF wrapInt(y + toInt(msg.arg[1])) > lines - height
                              THEN lines - height
                              ELSE wrapInt(y + toInt(msg.arg[1])))
                        ELSE y)
      [] msg.type = "ScrollLeftMsg" ->
           Constrain(IF hScroll THEN Max(wrapInt(x - toInt(msg.arg[1])), 0) ELSE x, y)
      [] msg.type = "ScrollRightMsg" ->
           Constrain(IF hScroll
                     THEN (IF wrapInt(x + toInt(msg.arg[1])) > maxLineWidth - width
                           THEN maxLineWidth - width
                           ELSE wrapInt(x + toInt(msg.arg[1])))
                     ELSE x, y)
      [] msg.type = "ScrollTopMsg" -> Constrain(x, IF vScroll THEN 0 ELSE y)
      [] msg.type = "ScrollBottomMsg" ->
           Constrain(x, IF vScroll THEN lines - height ELSE y)
      [] msg.type = "ScrollBeginMsg" -> Constrain(IF hScroll THEN 0 ELSE x, y)
      [] msg.type = "ScrollEndMsg" ->
           Constrain(IF hScroll THEN maxLineWidth - width ELSE x, y)

\* what op remembers of a resize: whether x and y were scrolled before it
Scrolled == <<IF x # 0 THEN 1 ELSE 0, IF y # 0 THEN 1 ELSE 0>>

UpdateInto(msg) ==
    /\ op' = [name |-> msg.type, arg |-> msg.arg,
              pre |-> IF msg.type = "ResizeMsg" THEN Scrolled ELSE NoPre]
    /\ UNCHANGED <<hScroll, vScroll, entries>>
    /\ Ghosts
    /\ IF msg.type = "ResizeMsg"
       THEN updateResize(msg)
       ELSE /\ UNCHANGED <<width, height, lines, maxLineWidth>>
            /\ updateScroll(msg)

\* the sizes a layout sends: the degenerate 0 x 0, 1 x 1 and every w x h with
\* 2 <= w <= MaxWidth, 1 <= h <= MaxHeight
Sizes == {<<0, 0>>, <<1, 1>>} \cup ((2..MaxWidth) \X (1..MaxHeight))
ScrollAmounts == {1, ScrollHuge}

ResizeMsg(w, h) ==
    /\ UpdateInto([type |-> "ResizeMsg", arg |-> <<w, h>>])
ScrollUpMsg(n) ==
    /\ UpdateInto([type |-> "ScrollUpMsg", arg |-> <<n>>])
ScrollDownMsg(n) ==
    /\ UpdateInto([type |-> "ScrollDownMsg", arg |-> <<n>>])
ScrollLeftMsg(n) ==
    /\ UpdateInto([type |-> "ScrollLeftMsg", arg |-> <<n>>])
ScrollRightMsg(n) ==
    /\ UpdateInto([type |-> "ScrollRightMsg", arg |-> <<n>>])
ScrollTopMsg ==
    /\ UpdateInto([type |-> "ScrollTopMsg", arg |-> <<>>])
ScrollBottomMsg ==
    /\ UpdateInto([type |-> "ScrollBottomMsg", arg |-> <<>>])
ScrollBeginMsg ==
    /\ UpdateInto([type |-> "ScrollBeginMsg", arg |-> <<>>])
ScrollEndMsg ==
    /\ UpdateInto([type |-> "ScrollEndMsg", arg |-> <<>>])

blankScreen == [i \in 1..height |-> Spaces(width)]

\* the "fill lines" loop of viewWrap
RECURSIVE viewWrapFill(_, _, _, _)

\* mutant: the whole block is taken, wanted or not
viewWrapTake_Whole(ents, curIdx, curLine, acc, l) ==
    viewWrapFill(ents, curIdx + 1, curLine + Len(l), acc \o l)

\* one pass of the loop body: the block l of entry curIdx, cut to the rows
\* still wanted
viewWrapTake(ents, curIdx, curLine, acc, l) ==
    LET want == Min(Len(l), y + height - curLine)
    IN  viewWrapFill(ents, curIdx + 1, curLine + want, acc \o SubSeq(l, 1, want))

viewWrapFill(ents, curIdx, curLine, acc) ==
    IF curLine < y + height /\ curIdx < Len(ents)
    THEN viewWrapTake(ents, curIdx, curLine, acc, StyledBlock(ents[curIdx + 1], width))
    ELSE acc

\* the "flush remaining lines" loop of viewWrap
viewWrapFlush(filled) ==
    filled \o [i \in 1..(y + height - Len(filled)) |-> Spaces(width)]

\* lines[c.y:] of viewWrap
viewWrapSlice(all) ==
    IF y < 0 \/ y > Len(all)
    THEN [panic |-> TRUE, lines |-> <<>>, x |-> x]
    ELSE [panic |-> FALSE, lines |-> SubSeq(all, y + 1, Len(all)), x |-> x]

\* viewWrap: the lines of the view, or a panic (negative make capacity,
\* slice bounds out of range)
viewWrap(ents) ==
    IF y + height < 0 THEN [panic |-> TRUE, lines |-> <<>>, x |-> x]
    ELSE viewWrapSlice(viewWrapFlush(viewWrapFill(ents, 0, 0, <<>>)))

\* viewNoWrap: re-clamps c.x, then slices entries[y : min(y+height, len)]
viewNoWrapAt(ents, nx, hi) ==
    IF y < 0 \/ y > hi
    THEN [panic |-> TRUE, lines |-> <<>>, x |-> nx]
    ELSE [panic |-> FALSE,
          lines |-> [i \in 1..height |->
                        IF i <= hi - y THEN StyledMove(ents[y + i], nx, width)
                        ELSE Spaces(width)],
          x |-> nx]

viewNoWrap(ents) ==
    viewNoWrapAt(ents,
                 IF x + width > maxLineWidth THEN Max(0, maxLineWidth - width) ELSE x,
                 Min(y + height, Len(ents)))

\* Component.View; the string "" splits into one empty line
Component_View ==
    IF width <= 0 \/ height <= 0
    THEN [panic |-> FALSE, lines |-> << <<>> >>, x |-> x]
    ELSE IF Len(GetAll(entries)) = 0
    THEN [panic |-> FALSE, lines |-> blankScreen, x |-> x]
    ELSE IF hScroll THEN viewNoWrap(GetAll(entries))
    ELSE viewWrap(GetAll(entries))

\* View() with result r: what it returns and the c.x it leaves
ViewReturns(r) ==
        /\ out' = [panic |-> r.panic, lines |-> r.lines, called |-> TRUE]
        /\ x' = r.x
        /\ op' = [name |-> "View", arg |-> <<>>, pre |-> NoPre]
        /\ UNCHANGED <<hScroll, vScroll, width, height, y, entries, lines,
                       maxLineWidth, appended, pure, heap, scan>>
        /\ UnusedIdle

View ==
    /\ ViewReturns(Component_View)

Next ==
    \/ \E e \in Texts : Component_Append(e)
    \/ \E e \in Texts : Component_Prepend(e)
    \/ Component_Clear
    \/ \E n \in 0..MaxEntries : Component_ResizeBuffer(n)
    \/ \E s \in Sizes : ResizeMsg(s[1], s[2])
    \/ \E n \in ScrollAmounts : ScrollUpMsg(n)
    \/ \E n \in ScrollAmounts : ScrollDownMsg(n)
    \/ \E n \in ScrollAmounts : ScrollLeftMsg(n)
    \/ \E n \in ScrollAmounts : ScrollRightMsg(n)
    \/ ScrollTopMsg
    \/ ScrollBottomMsg
    \/ ScrollBeginMsg
    \/ ScrollEndMsg
    \/ View

Spec == Init /\ [][Next]_vars

\* a component scrollable both ways (no-wrap mode) with room for one entry
\* more than MaxEntries
InitNoWrap ==
    /\ hScroll = TRUE /\ vScroll = TRUE
    /\ width = 0 /\ height = 0 /\ x = 0 /\ y = 0
    /\ lines = 0 /\ maxLineWidth = 0
    /\ out = NoView
    /\ entries = NewCircularBuffer(MaxEntries + 1)
    /\ op = [name |-> "NewComponent", arg |-> <<MaxEntries + 1>>, pre |-> NoPre]
    /\ appended = <<>>
    /\ pure = FALSE
    /\ heap = <<>>
    /\ scan = NoScan
    /\ Unused

SpecNoWrap == InitNoWrap /\ [][Next]_vars

(***************************************************************************)
(* Component claims (checked under Spec)                                   *)
(***************************************************************************)
\* the totals for the entries and size the component holds now, written
\* from their meaning: the rows of the virtual screen and its widest row
TotalLines ==
    LET ents == GetAll(entries)
        rows == IF hScroll THEN Len(ents)
                ELSE SumSeq([i \in 1..Len(ents) |-> Len(computeWarpPoints(ents[i], width))])
    IN  IF rows < height THEN height ELSE rows

WidestLine ==
    LET ents == GetAll(entries)
        ws == {width} \cup (IF hScroll THEN {Entry_Width(ents[i]) : i \in 1..Len(ents)} ELSE {})
    IN  CHOOSE m \in ws : \A k \in ws : k <= m

Mutating == {"Append", "Prepend", "Clear", "ResizeBuffer", "ResizeMsg",
             "ScrollUpMsg", "ScrollDownMsg", "ScrollLeftMsg", "ScrollRightMsg",
             "ScrollTopMsg", "ScrollBottomMsg", "ScrollBeginMsg", "ScrollEndMsg"}

\* C1: once the component has a size with width >= 2 and height >= 1, View()
\* returns exactly `height` lines and every line has display width exactly
\* `width`, whatever was appended, prepended, cleared or scrolled.
C1_ExactFit ==
    (out.called /\ width >= 2 /\ height >= 1) =>
        /\ ~out.panic
        /\ Len(out.lines) = height
        /\ \A i \in 1..Len(out.lines) : LineWidth(out.lines[i]) = width

\* C2: View() never panics, whatever Append, Prepend, Clear, ResizeBuffer
\* and Update calls came before.
C2_NoPanic == out.called => ~out.panic

\* C3: after every mutating operation 0 <= x <= max(0, maxLineWidth - width)
\* and 0 <= y <= max(0, totalLines - height), for the totals of the current
\* entries and size.
C3_ScrollOffsetInvariant ==
    op.name \in Mutating =>
        /\ 0 <= x /\ x <= Max(0, WidestLine - width)
        /\ 0 <= y /\ y <= Max(0, TotalLines - height)

C10_ResizeResets ==
    op.name = "ResizeMsg" =>
        /\ x = 0 /\ y = 0
        /\ width = op.arg[1] /\ height = op.arg[2]
        /\ lines = TotalLines
        /\ maxLineWidth = WidestLine

C10_Witness ==
    /\ op.name = "ResizeMsg"
    /\ op.pre = <<1, 1>>
    /\ x = 0 /\ y = 0
    /\ width = 3 /\ height = 1
    /\ lines > height /\ maxLineWidth > width

(***************************************************************************)
(* Scroll messages                                                         *)
(***************************************************************************)
VerticalMsgs == {"ScrollUpMsg", "ScrollDownMsg", "ScrollTopMsg", "ScrollBottomMsg"}
HorizontalMsgs == {"ScrollLeftMsg", "ScrollRightMsg", "ScrollBeginMsg", "ScrollEndMsg"}
UpdateMsgs == {"ResizeMsg"} \cup VerticalMsgs \cup HorizontalMsgs

\* the fields of the component
fields == <<hScroll, vScroll, width, height, x, y, entries, lines, maxLineWidth>>

\* C11: with vScroll disabled every vertical scroll message leaves the whole
\* component unchanged, and y = 0 after every Update; with hScroll disabled
\* the same holds for the horizontal messages and x; a vertical message
\* never changes x and a horizontal message never changes y.
C11_ScrollModeGating ==
    [][/\ (op'.name \in VerticalMsgs /\ ~vScroll) => UNCHANGED fields
       /\ (op'.name \in HorizontalMsgs /\ ~hScroll) => UNCHANGED fields
       /\ (op'.name \in UpdateMsgs /\ ~vScroll) => y' = 0
       /\ (op'.name \in UpdateMsgs /\ ~hScroll) => x' = 0
       /\ op'.name \in VerticalMsgs => x' = x
       /\ op'.name \in HorizontalMsgs => y' = y
      ]_vars

\* a vertical message on a component that only scrolls horizontally, is
\* scrolled right and has more rows than fit
C11_Witness ==
    /\ op.name = "ScrollDownMsg" /\ op.arg = <<1>>
    /\ ~vScroll /\ hScroll
    /\ x > 0 /\ y = 0
    /\ Size(entries) > height /\ height >= 1

(***************************************************************************)
(* Scroll amounts at the edge of the integer range                         *)
(***************************************************************************)
\* the largest int and the first unsigned value above it
IntMax == 2^(IntBits - 1) - 1
OverflowAmounts == {IntMax, IntMax + 1}

\* a component that wraps and scrolls vertically, with room for MaxEntries
\* entries
InitVScroll ==
    /\ hScroll = FALSE /\ vScroll = TRUE
    /\ width = 0 /\ height = 0 /\ x = 0 /\ y = 0
    /\ lines = 0 /\ maxLineWidth = 0
    /\ out = NoView
    /\ entries = NewCircularBuffer(MaxEntries)
    /\ op = [name |-> "NewComponent", arg |-> <<MaxEntries>>, pre |-> NoPre]
    /\ appended = <<>>
    /\ pure = FALSE
    /\ heap = <<>>
    /\ scan = NoScan
    /\ Unused

\* ScrollDownMsg with an amount from the edge of the range
ScrollDownFar ==
    /\ \E n \in OverflowAmounts :
          UpdateInto([type |-> "ScrollDownMsg", arg |-> <<n>>])

\* a producer that appends and clears, and a user who scrolls vertically
NextOverflow ==
    \/ \E e \in Texts : Component_Append(e)
    \/ Component_Clear
    \/ \E s \in Sizes : ResizeMsg(s[1], s[2])
    \/ \E n \in ScrollAmounts : ScrollUpMsg(n)
    \/ \E n \in ScrollAmounts : ScrollDownMsg(n)
    \/ ScrollDownFar
    \/ ScrollTopMsg
    \/ ScrollBottomMsg
    \/ View

SpecOverflow == InitVScroll /\ [][NextOverflow]_vars

\* C12: with vScroll enabled, after a ScrollDownMsg(N) whose amount reaches
\* past the end (any N from ScrollHuge up to the largest unsigned value),
\* y = max(0, totalLines - height), totalLines being the total the component
\* holds; after ScrollTopMsg, y = 0.
C12_ScrollClamp ==
    /\ (op.name = "ScrollDownMsg" /\ vScroll /\ op.arg[1] >= ScrollHuge) =>
           y = Max(0, lines - height)
    /\ (op.name = "ScrollTopMsg" /\ vScroll) => y = 0

(***************************************************************************)
(* Render equivalences                                                     *)
(***************************************************************************)
\* the virtual screen of wrap mode: every entry's block, oldest entry first
RECURSIVE ConcatBlocks(_, _)
ConcatBlocks(ents, w) ==
    IF ents = <<>> THEN <<>>
    ELSE StyledBlock(Head(ents), w) \o ConcatBlocks(Tail(ents), w)

\* rows [from, from + n) of a screen, blank where the screen has ended
Rows(screen, from, n, w) ==
    [i \in 1..n |-> IF from + i <= Len(screen) THEN screen[from + i] ELSE Spaces(w)]

C13_WitnessPadded ==
    /\ out.called /\ ~out.panic /\ ~hScroll
    /\ height = 2 /\ width = 3
    /\ out.lines = << <<1, 0, 0>>, <<0, 0, 0>> >>

\* C14: in no-wrap mode (hScroll enabled) with width >= 1, height >= 1 and
\* at least one entry, row i (0 <= i < height) of View() is
\* entries[y+i].StyledMove(x, width) when y+i < number of entries and `width`
\* spaces otherwise, x and y being the offsets held before the call.
C14_NoWrapRender ==
    [][(op'.name = "View" /\ hScroll /\ width >= 1 /\ height >= 1
            /\ Size(entries) >= 1) =>
          /\ ~out'.panic
          /\ out'.lines =
                [i \in 1..height |->
                    IF y + i <= Size(entries)
                    THEN StyledMove(GetAll(entries)[y + i], x, width)
                    ELSE Spaces(width)]
      ]_vars

(***************************************************************************)
(* Insertion                                                               *)
(***************************************************************************)
\* C15: Append and Prepend leave x, y, width and height unchanged, whether
\* or not the ring buffer was full and an entry was evicted.
C15_NoAutoScroll ==
    [][op'.name \in {"Append", "Prepend"} => UNCHANGED <<x, y, width, height>>]_vars

\* an Append that evicted an entry of a component scrolled both ways
C15_Witness ==
    /\ op.name = "Append" /\ op.pre = <<1>>
    /\ x > 0 /\ y > 0 /\ width >= 2 /\ height >= 1

\* a Prepend into a buffer with room left
C15_WitnessPrepend ==
    /\ op.name = "Prepend" /\ op.pre = <<0>>
    /\ Size(entries) = 2
    /\ x > 0 /\ width >= 2 /\ height >= 1

(***************************************************************************)
(* Entry on its own: one entry, and calls of its column-addressed methods  *)
(***************************************************************************)
\* every entry of at most MaxLen narrow or wide code points
Entries == UNION {[1..n -> {1, 2}] : n \in 0..MaxLen}
WidthArgs == (-1)..MaxArg
StartCols == (-2)..MaxArg

\* the entry under test sits alone in a one-slot buffer
TheEntry == GetAll(entries)[1]

InitEntry ==
    /\ hScroll = FALSE /\ vScroll = FALSE
    /\ width = 0 /\ height = 0 /\ x = 0 /\ y = 0
    /\ lines = 0 /\ maxLineWidth = 0
    /\ out = NoView
    /\ \E e \in Entries :
          /\ entries = CircularBuffer_Append(NewCircularBuffer(1), e)
          /\ op = [name |-> "NewEntry", arg |-> e, pre |-> NoPre]
    /\ appended = <<>>
    /\ pure = FALSE
    /\ heap = <<>>
    /\ scan = NoScan
    /\ Unused

\* a method call: its name and arguments go to op, the strings it returns to
\* out.lines and the number it returns to lines
Entry_Call(name, args, strs, n) ==
    /\ op' = [name |-> name, arg |-> args, pre |-> NoPre]
    /\ out' = [panic |-> FALSE, lines |-> strs, called |-> TRUE]
    /\ lines' = n
    /\ UNCHANGED <<hScroll, vScroll, width, height, x, y, entries,
                   maxLineWidth, appended, pure, heap, scan>>
    /\ UnusedIdle

CallStyledBlock ==
    /\ \E w \in WidthArgs :
          Entry_Call("StyledBlock", <<w>>, StyledBlock(TheEntry, w), 0)

CallStyledWarps ==
    /\ \E w \in WidthArgs :
          Entry_Call("StyledWarps", <<w>>, StyledWarps(TheEntry, w), 0)

CallLines ==
    /\ \E w \in WidthArgs :
          Entry_Call("Lines", <<w>>, <<>>, Entry_Lines(TheEntry, w))

CallStyledMove ==
    /\ \E s \in StartCols, w \in WidthArgs :
          Entry_Call("StyledMove", <<s, w>>, <<StyledMove(TheEntry, s, w)>>, 0)

CallStyledShift ==
    /\ \E s \in StartCols, w \in WidthArgs :
          Entry_Call("StyledShift", <<s, w>>, <<StyledShift(TheEntry, s, w)>>, 0)

\* the four results of computeStartAndEndForShift as one tuple, a flag as 0 or 1
ShiftResult(r) ==
    <<r.startIdx, r.endIdx, IF r.hasPrefix THEN 1 ELSE 0,
      IF r.hasSuffix THEN 1 ELSE 0>>

CallComputeStartAndEndForShift ==
    /\ \E s \in StartCols, w \in WidthArgs :
          Entry_Call("computeStartAndEndForShift", <<s, w>>,
                     <<ShiftResult(computeStartAndEndForShift(
                           runeEndOffsets(TheEntry), s, w))>>, 0)

NextEntry ==
    \/ CallStyledBlock
    \/ CallStyledWarps
    \/ CallLines
    \/ CallStyledMove
    \/ CallStyledShift
    \/ CallComputeStartAndEndForShift

SpecEntry == InitEntry /\ [][NextEntry]_vars

\* C16: for every entry (the empty one and entries with wide code points
\* included) and every width > 0 (width 1 included), every line of
\* StyledBlock(width) has display width exactly `width` and every line of
\* StyledWarps(width) has display width <= `width`.
C16_WidthFidelity ==
    /\ (op.name = "StyledBlock" /\ op.arg[1] > 0) =>
          \A i \in 1..Len(out.lines) : LineWidth(out.lines[i]) = op.arg[1]
    /\ (op.name = "StyledWarps" /\ op.arg[1] > 0) =>
          \A i \in 1..Len(out.lines) : LineWidth(out.lines[i]) <= op.arg[1]

\* the code points of some lines, in order, padding spaces left out
RECURSIVE CodePoints(_)
CodePoints(ls) ==
    IF ls = <<>> THEN <<>>
    ELSE SelectSeq(Head(ls), LAMBDA c : c # 0) \o CodePoints(Tail(ls))

ThreeWide == <<2, 2, 2>>

\* C17 as stated: StyledBlock(3) of three wide code points is
\* [wide1 + space, wide2 + space, wide3], StyledBlock(2) is
\* [wide1, wide2, wide3].
C17_Original ==
    (op.name = "StyledBlock" /\ TheEntry = ThreeWide) =>
        /\ op.arg = <<3>> => out.lines = << <<2, 0>>, <<2, 0>>, <<2>> >>
        /\ op.arg = <<2>> => out.lines = << <<2>>, <<2>>, <<2>> >>

\* C17 amended: for three wide code points StyledWarps(3) is
\* [wide1 + space, wide2 + space, wide3] and StyledBlock(3) pads the last
\* line too: [wide1 + space, wide2 + space, wide3 + space]; StyledBlock(2)
\* and StyledWarps(2) are [wide1, wide2, wide3].  Generally, for width >= 2,
\* a line that is not the last ends in one space exactly when the next line
\* starts with a wide code point that did not fit, every such line is
\* `width` columns wide, and the code points of the lines are those of the
\* entry in order.
C17_WideCut ==
    /\ (op.name = "StyledBlock" /\ TheEntry = ThreeWide) =>
          /\ op.arg = <<3>> => out.lines = << <<2, 0>>, <<2, 0>>, <<2, 0>> >>
          /\ op.arg = <<2>> => out.lines = << <<2>>, <<2>>, <<2>> >>
    /\ (op.name = "StyledWarps" /\ TheEntry = ThreeWide) =>
          /\ op.arg = <<3>> => out.lines = << <<2, 0>>, <<2, 0>>, <<2>> >>
          /\ op.arg = <<2>> => out.lines = << <<2>>, <<2>>, <<2>> >>
    /\ (op.name \in {"StyledBlock", "StyledWarps"} /\ op.arg[1] >= 2) =>
          /\ CodePoints(out.lines) = TheEntry
          /\ \A i \in 1..(Len(out.lines) - 1) :
                LET l == out.lines[i]
                    content == SelectSeq(l, LAMBDA c : c # 0)
                IN  /\ LineWidth(l) = op.arg[1]
                    /\ l \in {content, content \o <<0>>}
                    /\ (l # content) <=> (SumSeq(content) = op.arg[1] - 1)
                    /\ (l # content) => Head(out.lines[i + 1]) = 2

C17_Witness ==
    /\ op.name = "StyledBlock" /\ TheEntry = ThreeWide /\ op.arg = <<3>>
    /\ Len(out.lines) = 3

\* a narrow code point, then a wide one that does not fit at width 2
C17_WitnessMixed ==
    /\ op.name = "StyledWarps" /\ TheEntry = <<1, 2, 1>> /\ op.arg = <<2>>
    /\ out.lines = << <<1, 0>>, <<2>>, <<1>> >>

\* the warp points cut e into consecutive non-empty runs of code points
CoversOnce(e, points) ==
    /\ Len(points) >= 1
    /\ points[1].start = 0
    /\ points[Len(points)].end = Len(e)
    /\ \A i \in 1..Len(points) : points[i].start < points[i].end
    /\ \A i \in 1..(Len(points) - 1) : points[i + 1].start = points[i].end

\* C18: for every entry (the empty one included) and every integer width,
\* width <= 0 being treated as 1, Lines(width) = len(StyledWarps(width)) =
\* len(StyledBlock(width)); the loop of computeWarpPoints ends, takes at
\* least one code point per line and covers every code point exactly once.
C18_LinesAgree ==
    /\ op.name = "Lines" =>
          /\ lines = Len(StyledWarps(TheEntry, op.arg[1]))
          /\ lines = Len(StyledBlock(TheEntry, op.arg[1]))
    /\ op.name = "StyledWarps" =>
          Len(out.lines) = Len(StyledBlock(TheEntry, op.arg[1]))
    /\ (op.name \in {"Lines", "StyledWarps", "StyledBlock"} /\ Len(TheEntry) > 0) =>
          CoversOnce(TheEntry, computeWarpPoints(TheEntry, Max(1, op.arg[1])))

\* the index (from 1) of the code point of e that covers column c
CoverIdx(e, c) ==
    CHOOSE k \in 1..Len(e) :
        /\ computeRuneEndOffsets(e)[k] > c
        /\ \A j \in 1..(k - 1) : computeRuneEndOffsets(e)[j] <= c

\* what column c of the window [s, s + w) shows: nothing for the second
\* column of a wide code point shown whole, the code point at its first
\* column, one space for a column outside the entry or for half of a wide
\* code point
WindowCell(e, s, w, c) ==
    IF c < 0 \/ c >= Entry_Width(e) THEN <<0>>
    ELSE LET k == CoverIdx(e, c)
             first == computeRuneEndOffsets(e)[k] - e[k]
             whole == first >= s /\ first + e[k] <= s + w
         IN  IF ~whole THEN <<0>>
             ELSE IF c = first THEN <<e[k]>>
             ELSE <<>>

RECURSIVE Window(_, _, _, _)
Window(e, s, w, c) ==
    IF c >= s + w THEN <<>>
    ELSE WindowCell(e, s, w, c) \o Window(e, s, w, c + 1)

\* C19: for every entry (the empty one included), every integer startCol
\* (negative, inside the entry, or >= e.Width()) and every width >= 2,
\* StyledMove(startCol, width) is exactly `width` columns wide: columns
\* before column 0 or at or after e.Width() are spaces, the others show the
\* entry's content at those columns.
C19_MoveStrip ==
    (op.name = "StyledMove" /\ op.arg[2] >= 2) =>
        /\ LineWidth(out.lines[1]) = op.arg[2]
        /\ out.lines[1] = Window(TheEntry, op.arg[1], op.arg[2], op.arg[1])

TwoWide == <<2, 2>>

C21_WitnessSlide ==
    /\ op.name = "StyledShift"
    /\ op.arg[1] > Entry_Width(TheEntry)
    /\ op.arg[2] >= 2 /\ op.arg[2] < Entry_Width(TheEntry)
    /\ out.lines[1][1] = 0

\* the first column of code point i (0-based) of entry e
FirstCol(e, i) == runeEndOffsets(e)[i + 1] - e[i + 1]

\* C22: column addressing never splits a wide code point: for every valid
\* offset array, every startCol >= 0 and width >= 2 with
\* startCol + width <= total width, computeStartAndEndForShift returns
\* 0 <= startIdx <= endIdx <= n such that the code points in
\* [startIdx, endIdx) are exactly those lying entirely inside the columns
\* [startCol, startCol + width), hasPrefix is true iff startCol is the second
\* column of a wide code point, hasSuffix is true iff the last column is the
\* first column of a wide code point, and the two flags plus the widths of
\* the returned code points add up to width.
C22_NoSplit ==
    (/\ op.name = "computeStartAndEndForShift"
     /\ op.arg[1] >= 0 /\ op.arg[2] >= 2
     /\ op.arg[1] + op.arg[2] <= Entry_Width(TheEntry)) =>
        LET e == TheEntry
            n == Len(e)
            startCol == op.arg[1]
            w == op.arg[2]
            startIdx == out.lines[1][1]
            endIdx == out.lines[1][2]
            hasPrefix == out.lines[1][3]
            hasSuffix == out.lines[1][4]
            inside == {i \in 0..(n - 1) :
                          /\ FirstCol(e, i) >= startCol
                          /\ FirstCol(e, i) + e[i + 1] <= startCol + w}
        IN  /\ 0 <= startIdx /\ startIdx <= endIdx /\ endIdx <= n
            /\ startIdx..(endIdx - 1) = inside
            /\ (hasPrefix = 1) <=>
                  \E i \in 0..(n - 1) :
                      e[i + 1] = 2 /\ FirstCol(e, i) + 1 = startCol
            /\ (hasSuffix = 1) <=>
                  \E i \in 0..(n - 1) :
                      e[i + 1] = 2 /\ FirstCol(e, i) = startCol + w - 1
            /\ hasPrefix + hasSuffix + SumSeq(SubSeq(e, startIdx + 1, endIdx)) = w

\* a window of two columns that holds the second half of one wide code point
\* and the first half of the next: no code point is returned
C22_Witness ==
    /\ op.name = "computeStartAndEndForShift"
    /\ op.arg[1] >= 0 /\ op.arg[2] = 2
    /\ op.arg[1] + op.arg[2] <= Entry_Width(TheEntry)
    /\ out.lines[1][3] = 1 /\ out.lines[1][4] = 1
    /\ out.lines[1][1] = out.lines[1][2]

\* a window cut on the right only, with code points inside
C22_WitnessSuffix ==
    /\ op.name = "computeStartAndEndForShift"
    /\ op.arg[1] >= 0 /\ op.arg[2] >= 2
    /\ op.arg[1] + op.arg[2] <= Entry_Width(TheEntry)
    /\ out.lines[1][3] = 0 /\ out.lines[1][4] = 1
    /\ out.lines[1][1] < out.lines[1][2]

(***************************************************************************)
(* Styles.  A string is a sequence of characters, each a one-character     *)
(* TLA+ string except ESC, the escape byte 0x1b.  A style object is a      *)
(* record of the fields of the Go struct; a *style is an index into heap,  *)
(* 0 for nil, so that two pointers to equal objects stay distinguishable.  *)
(***************************************************************************)
ESC == "ESC"
Digit == {"0", "1", "2", "3", "4", "5", "6", "7", "8", "9"}

EmptyStyle ==
    [fg |-> <<>>, bg |-> <<>>, bold |-> FALSE, faint |-> FALSE,
     italic |-> FALSE, underline |-> FALSE, strike |-> FALSE,
     blink |-> FALSE, reverse |-> FALSE, hidden |-> FALSE]

\* s.isEmpty() for the pointer s
isEmpty(h, s) == s = 0 \/ h[s] = EmptyStyle

\* &v: a new object holding v
alloc(h, v) == [heap |-> Append(h, v), ptr |-> Len(h) + 1]

\* mutant: Clone hands back the object itself
style_Clone_Alias(h, s) ==
    IF isEmpty(h, s) THEN [heap |-> h, ptr |-> 0]
    ELSE [heap |-> h, ptr |-> s]

style_Clone(h, s) ==
    IF isEmpty(h, s) THEN [heap |-> h, ptr |-> 0]
    ELSE alloc(h, h[s])

\* the closures w, str and bool of style.String
escape(param) == <<ESC, "[">> \o param \o <<"m">>
strEscape(param) == IF Len(param) > 0 THEN escape(param) ELSE <<>>
boolEscape(enabled, param) == IF enabled THEN escape(param) ELSE <<>>

styleText(v) ==
    strEscape(v.fg) \o strEscape(v.bg)
    \o boolEscape(v.bold, <<"1">>) \o boolEscape(v.faint, <<"2">>)
    \o boolEscape(v.italic, <<"3">>) \o boolEscape(v.underline, <<"4">>)
    \o boolEscape(v.blink, <<"5">>) \o boolEscape(v.reverse, <<"7">>)
    \o boolEscape(v.hidden, <<"8">>) \o boolEscape(v.strike, <<"9">>)

style_String(h, s) == IF isEmpty(h, s) THEN <<>> ELSE styleText(h[s])

ResetEscape == <<ESC, "[", "0", "m">>

\* mutant: nothing is written for a style equal to the previous one
style_Render_Diff(h, s, prevStyle) ==
    IF ~isEmpty(h, prevStyle) /\ ~isEmpty(h, s) /\ h[s] = h[prevStyle] THEN <<>>
    ELSE IF ~isEmpty(h, prevStyle) THEN ResetEscape \o style_String(h, s)
    ELSE style_String(h, s)

style_Render(h, s, prevStyle) ==
    IF ~isEmpty(h, prevStyle) THEN ResetEscape \o style_String(h, s)
    ELSE style_String(h, s)

\* strings.TrimPrefix, strings.TrimSuffix
TrimPrefix(s, prefix) ==
    IF Len(s) >= Len(prefix) /\ SubSeq(s, 1, Len(prefix)) = prefix
    THEN SubSeq(s, Len(prefix) + 1, Len(s)) ELSE s
TrimSuffix(s, suffix) ==
    IF Len(s) >= Len(suffix) /\ SubSeq(s, Len(s) - Len(suffix) + 1, Len(s)) = suffix
    THEN SubSeq(s, 1, Len(s) - Len(suffix)) ELSE s

\* strings.Split(s, ";")
RECURSIVE Split(_)
SplitRest(s, k) == <<SubSeq(s, 1, k - 1)>> \o Split(SubSeq(s, k + 1, Len(s)))
Split(s) ==
    IF \E k \in 1..Len(s) : s[k] = ";"
    THEN SplitRest(s, CHOOSE k \in 1..Len(s) :
                          s[k] = ";" /\ \A j \in 1..(k - 1) : s[j] # ";")
    ELSE <<s>>

\* the parameter strings of the colour cases of the switch
FgBasic == {<<"3", d>> : d \in {"0", "1", "2", "3", "4", "5", "6", "7"}}
BgBasic == {<<"4", d>> : d \in {"0", "1", "2", "3", "4", "5", "6", "7"}}
FgBright == {<<"9", d>> : d \in {"0", "1", "2", "3", "4", "5", "6", "7"}}
BgBright == {<<"1", "0", d>> : d \in {"0", "1", "2", "3", "4", "5", "6", "7"}}

\* newStyle.f = v, and the loop goes on at index i
setField(h, p, f, v, i) == [heap |-> [h EXCEPT ![p][f] = v], ptr |-> p, i |-> i]
\* case "22": two fields
setTwo(h, p, f, g, v, i) ==
    [heap |-> [h EXCEPT ![p][f] = v, ![p][g] = v], ptr |-> p, i |-> i]

\* mutant: the parameters of the group are not skipped
extendedColour_NoSkip(h, p, parts, i, f) ==
    IF i + 2 < Len(parts) /\ parts[i + 2] = <<"5">>
    THEN setField(h, p, f, parts[i + 1] \o <<";", "5", ";">> \o parts[i + 3], i)
    ELSE IF i + 4 < Len(parts) /\ parts[i + 2] = <<"2">>
    THEN setField(h, p, f, parts[i + 1] \o <<";", "2", ";">> \o parts[i + 3]
                           \o <<";">> \o parts[i + 4] \o <<";">> \o parts[i + 5],
                  i)
    ELSE [heap |-> h, ptr |-> p, i |-> i]

\* cases "38" and "48": the 256-colour and the RGB group after index i
\* (0-based), written to field f
extendedColour(h, p, parts, i, f) ==
    IF i + 2 < Len(parts) /\ parts[i + 2] = <<"5">>
    THEN setField(h, p, f, parts[i + 1] \o <<";", "5", ";">> \o parts[i + 3], i + 2)
    ELSE IF i + 4 < Len(parts) /\ parts[i + 2] = <<"2">>
    THEN setField(h, p, f, parts[i + 1] \o <<";", "2", ";">> \o parts[i + 3]
                           \o <<";">> \o parts[i + 4] \o <<";">> \o parts[i + 5],
                  i + 4)
    ELSE [heap |-> h, ptr |-> p, i |-> i]

\* case "0" of the switch
resetPart(h, p, i) ==
    IF ~isEmpty(h, p)
    THEN [heap |-> Append(h, EmptyStyle), ptr |-> Len(h) + 1, i |-> i]
    ELSE [heap |-> h, ptr |-> p, i |-> i]

\* one turn of the loop: the switch on part = parts[i] (0-based)
parsePart(h, p, parts, i, part) ==
    CASE part = <<"0">> -> resetPart(h, p, i)
      [] part = <<"1">> -> setField(h, p, "bold", TRUE, i)
      [] part = <<"2">> -> setField(h, p, "faint", TRUE, i)
      [] part = <<"3">> -> setField(h, p, "italic", TRUE, i)
      [] part = <<"4">> -> setField(h, p, "underline", TRUE, i)
      [] part = <<"5">> -> setField(h, p, "blink", TRUE, i)
      [] part = <<"7">> -> setField(h, p, "reverse", TRUE, i)
      [] part = <<"8">> -> setField(h, p, "hidden", TRUE, i)
      [] part = <<"9">> -> setField(h, p, "strike", TRUE, i)
      [] part = <<"2", "2">> -> setTwo(h, p, "bold", "faint", FALSE, i)
      [] part = <<"2", "3">> -> setField(h, p, "italic", FALSE, i)
      [] part = <<"2", "4">> -> setField(h, p, "underline", FALSE, i)
      [] part = <<"2", "5">> -> setField(h, p, "blink", FALSE, i)
      [] part = <<"2", "7">> -> setField(h, p, "reverse", FALSE, i)
      [] part = <<"2", "8">> -> setField(h, p, "hidden", FALSE, i)
      [] part = <<"2", "9">> -> setField(h, p, "strike", FALSE, i)
      [] part = <<"3", "9">> -> setField(h, p, "fg", <<>>, i)
      [] part = <<"4", "9">> -> setField(h, p, "bg", <<>>, i)
      [] part \in FgBasic \cup FgBright -> setField(h, p, "fg", part, i)
      [] part \in BgBasic \cup BgBright -> setField(h, p, "bg", part, i)
      [] part = <<"3", "8">> -> extendedColour(h, p, parts, i, "fg")
      [] part = <<"4", "8">> -> extendedColour(h, p, parts, i, "bg")
      [] OTHER -> [heap |-> h, ptr |-> p, i |-> i]

\* the loop over parts from index i (0-based) on
RECURSIVE parseLoop(_, _, _, _)
parseNext(parts, r) == parseLoop(r.heap, r.ptr, parts, r.i + 1)
parseLoop(h, p, parts, i) ==
    IF i >= Len(parts) THEN [heap |-> h, ptr |-> p]
    ELSE parseNext(parts, parsePart(h, p, parts, i, parts[i + 1]))

\* mutant: the style is returned as it is, empty or not
parseReturn_NoNil(r) == r

\* the end of parseAnsiCode: nil for an empty style
parseReturn(r) ==
    IF isEmpty(r.heap, r.ptr) THEN [heap |-> r.heap, ptr |-> 0] ELSE r

\* parseAnsiCode after the clone n of previousStyle
parseParams(n, paramsStr) ==
    IF paramsStr = <<>> \/ paramsStr = <<"0">>
    THEN [heap |-> n.heap, ptr |-> 0]
    ELSE parseReturn(parseLoop(n.heap, n.ptr, Split(paramsStr), 0))

\* newStyle := previousStyle.Clone(), a new empty object when that is nil
cloneOrNew(c) == IF c.ptr = 0 THEN alloc(c.heap, EmptyStyle) ELSE c

\* parseAnsiCode(code, previousStyle): the pointer returned and the heap left
parseAnsiCode(h, code, previousStyle) ==
    parseParams(cloneOrNew(style_Clone(h, previousStyle)),
                TrimSuffix(TrimPrefix(code, <<ESC, "[">>), <<"m">>))

(***************************************************************************)
(* The style parser and renderer on their own: some style objects, and     *)
(* calls of parseAnsiCode and Render on them                               *)
(***************************************************************************)
MaxObjects == 2     \* style objects allocated before the calls
MaxGroups == 3      \* most parameter groups of an escape code

Bold == [EmptyStyle EXCEPT !.bold = TRUE]
RedOnBlue == [EmptyStyle EXCEPT !.fg = <<"3", "1">>, !.bg = <<"4", "4">>,
                                !.faint = TRUE, !.blink = TRUE]
StylePool == {EmptyStyle, Bold, RedOnBlue}

\* parameter groups an escape code is put together from: attribute and
\* colour parameters, a parameter the switch does not know, whole
\* extended-colour groups, and extended-colour groups cut short
Recognized == {<<"0">>, <<"1">>, <<"2", "2">>, <<"3", "1">>}
Unrecognized == {<<"6">>}
Complete == {<<"3", "8", ";", "5", ";", "1">>,
             <<"4", "8", ";", "5", ";", "1">>,
             <<"3", "8", ";", "2", ";", "1", ";", "2", ";", "3">>}
Malformed == {<<"3", "8", ";", "5">>,
              <<"3", "8", ";", "2", ";", "1", ";", "2">>,
              <<"4", "8">>}
GroupPool == Recognized \cup Unrecognized \cup Complete \cup Malformed
Codes == UNION {[1..n -> GroupPool] : n \in 0..MaxGroups}

\* the groups joined by ";"
RECURSIVE Join(_)
Join(groups) ==
    IF groups = <<>> THEN <<>>
    ELSE IF Len(groups) = 1 THEN groups[1]
    ELSE groups[1] \o <<";">> \o Join(Tail(groups))

\* the escape sequence ESC [ params m
CodeOf(groups) == escape(Join(groups))

\* the value a style pointer stands for: nil is the empty style
ValueOf(h, s) == IF s = 0 THEN EmptyStyle ELSE h[s]

InitStyle ==
    /\ hScroll = FALSE /\ vScroll = FALSE
    /\ width = 0 /\ height = 0 /\ x = 0 /\ y = 0
    /\ lines = 0 /\ maxLineWidth = 0
    /\ out = NoView
    /\ entries = NewCircularBuffer(0)
    /\ appended = <<>>
    /\ pure = FALSE
    /\ heap \in [1..MaxObjects -> StylePool]
    /\ Unused
    /\ \E s \in 0..Len(heap) :
          scan = [pc |-> "style", currentStyle |-> s]
    /\ op = [name |-> "style", arg |-> <<>>, pre |-> <<0, EmptyStyle>>]

StyleIdle ==
    UNCHANGED <<hScroll, vScroll, width, height, x, y, entries, lines,
                maxLineWidth, appended, pure, got, block, Reverse, layout, runner>>

\* currentStyle = parseAnsiCode(code, currentStyle), r the call's result
ParseInto(groups, r) ==
    /\ heap' = r.heap
    /\ scan' = [scan EXCEPT !.currentStyle = r.ptr]
    /\ op' = [name |-> "parseAnsiCode", arg |-> groups,
              pre |-> <<scan.currentStyle, ValueOf(heap, scan.currentStyle)>>]
    /\ out' = NoView
    /\ StyleIdle

CallParseAnsiCode ==
    /\ Len(heap) <= MaxObjects
    /\ \E groups \in Codes :
          ParseInto(groups, parseAnsiCode(heap, CodeOf(groups), scan.currentStyle))

\* cur.Render(prev) on two of the style pointers at hand
CallRender ==
    /\ Len(heap) <= MaxObjects
    /\ \E cur \in 0..Len(heap), prev \in 0..Len(heap) :
          /\ op' = [name |-> "Render", arg |-> <<cur, prev>>, pre |-> op.pre]
          /\ out' = [panic |-> FALSE, lines |-> <<style_Render(heap, cur, prev)>>,
                     called |-> TRUE]
    /\ UNCHANGED <<heap, scan>>
    /\ StyleIdle

NextStyle ==
    \/ CallParseAnsiCode
    \/ CallRender

SpecStyle == InitStyle /\ [][NextStyle]_vars

(***************************************************************************)
(* C23..C27: claims on parseAnsiCode and Render (checked under SpecStyle)  *)
(***************************************************************************)
\* what one well-formed parameter group of the pool means for a style value
SgrGroup(v, g) ==
    CASE g = <<"0">> -> EmptyStyle
      [] g = <<"1">> -> [v EXCEPT !.bold = TRUE]
      [] g = <<"2", "2">> -> [v EXCEPT !.bold = FALSE, !.faint = FALSE]
      [] g = <<"3", "1">> -> [v EXCEPT !.fg = g]
      [] g \in Complete /\ g[1] = "3" -> [v EXCEPT !.fg = g]
      [] g \in Complete /\ g[1] = "4" -> [v EXCEPT !.bg = g]
      [] OTHER -> v

\* the groups applied left to right
RECURSIVE Sgr(_, _)
Sgr(v, groups) ==
    IF groups = <<>> THEN v ELSE Sgr(SgrGroup(v, Head(groups)), Tail(groups))

C23_WitnessKept ==
    /\ op.name = "parseAnsiCode"
    /\ op.pre[2] = RedOnBlue
    /\ Len(op.arg) = 2 /\ op.arg[1] = <<"0">> /\ op.arg[2] = <<"1">>
    /\ scan.currentStyle # 0
    /\ heap[scan.currentStyle] = Bold

\* the style value parseAnsiCode leaves when the parameters `groups` are
\* applied to a style of value v; no parameters leave v as it is
parsedFrom(r) == ValueOf(r.heap, r.ptr)
ParseValue(v, groups) ==
    IF groups = <<>> THEN v
    ELSE parsedFrom(parseAnsiCode(<<v>>, CodeOf(groups), 1))

\* the field an extended-colour group sets
ColourField(g) == IF g[1] = "3" THEN "fg" ELSE "bg"

\* C24: extended colours consume their parameters: in any parameter list a
\* complete group 38;5;N or 48;5;N, or 38;2;R;G;B or 48;2;R;G;B, sets fg or
\* bg to its descriptor and the parameters inside it are not read as
\* attribute codes (38;5;1 sets neither blink nor bold); the parameters
\* before and after the group are applied normally, left to right.
C24_ExtendedColour ==
    op.name = "parseAnsiCode" =>
        /\ \A k \in 1..Len(op.arg) :
              (/\ op.arg[k] \in Complete
               /\ \A j \in 1..(k - 1) : op.arg[j] \notin Malformed) =>
                  ValueOf(heap, scan.currentStyle) =
                      ParseValue([ParseValue(op.pre[2], SubSeq(op.arg, 1, k - 1))
                                     EXCEPT ![ColourField(op.arg[k])] = op.arg[k]],
                                 SubSeq(op.arg, k + 1, Len(op.arg)))
        /\ (op.arg = <<(<<"3", "8", ";", "5", ";", "1">>)>> /\ op.pre[2] = EmptyStyle) =>
              /\ scan.currentStyle # 0
              /\ heap[scan.currentStyle] =
                    [EmptyStyle EXCEPT !.fg = <<"3", "8", ";", "5", ";", "1">>]

\* a 24-bit group between two attribute parameters
C24_Witness ==
    /\ op.name = "parseAnsiCode"
    /\ Len(op.arg) = 3
    /\ op.arg[1] = <<"1">>
    /\ op.arg[2] = <<"3", "8", ";", "2", ";", "1", ";", "2", ";", "3">>
    /\ op.arg[3] = <<"2", "2">>
    /\ scan.currentStyle # 0
    /\ heap[scan.currentStyle].fg = op.arg[2]
    /\ ~heap[scan.currentStyle].bold

\* 38;5;1 on its own
C24_WitnessAlone ==
    /\ op.name = "parseAnsiCode"
    /\ op.arg = <<(<<"3", "8", ";", "5", ";", "1">>)>>
    /\ op.pre[2] = EmptyStyle
    /\ scan.currentStyle # 0

\* the parameters the switch of parseAnsiCode knows, the two extended-colour
\* introducers apart
Attribute ==
    {<<"0">>, <<"1">>, <<"2">>, <<"3">>, <<"4">>, <<"5">>, <<"7">>, <<"8">>,
     <<"9">>, <<"2", "2">>, <<"2", "3">>, <<"2", "4">>, <<"2", "5">>,
     <<"2", "7">>, <<"2", "8">>, <<"2", "9">>, <<"3", "9">>, <<"4", "9">>}
    \cup FgBasic \cup BgBasic \cup FgBright \cup BgBright
Introducer == {<<"3", "8">>, <<"4", "8">>}

\* a parameter list without its malformed groups and unrecognized
\* parameters: an introducer followed by 5;N or 2;R;G;B stays with its
\* group, one followed by the beginning of such a group that the list cuts
\* short goes with what is left of the list, any other introducer and any
\* unknown parameter goes alone
RECURSIVE Kept(_)
Kept(parts) ==
    IF parts = <<>> THEN <<>>
    ELSE IF Head(parts) \in Introducer
    THEN IF Len(parts) >= 3 /\ parts[2] = <<"5">>
         THEN SubSeq(parts, 1, 3) \o Kept(SubSeq(parts, 4, Len(parts)))
         ELSE IF Len(parts) >= 5 /\ parts[2] = <<"2">>
         THEN SubSeq(parts, 1, 5) \o Kept(SubSeq(parts, 6, Len(parts)))
         ELSE IF Len(parts) >= 2 /\ parts[2] \in {<<"5">>, <<"2">>}
         THEN <<>>
         ELSE Kept(Tail(parts))
    ELSE IF Head(parts) \in Attribute
    THEN <<Head(parts)>> \o Kept(Tail(parts))
    ELSE Kept(Tail(parts))

\* C25: malformed parameters are ignored: for a parameter list in which an
\* extended-colour introducer (38 or 48) is not followed by a complete 5;N
\* or 2;R;G;B group (38;5, or 38;2;1;2), and for any unrecognized parameter,
\* parseAnsiCode yields the same style as the list with the malformed group
\* or unrecognized parameter removed (the previous style when nothing is
\* left): the malformed parameters set no colour and no attribute.
C25_MalformedIgnored ==
    (op.name = "parseAnsiCode" /\ op.arg # <<>>
        /\ Kept(Split(Join(op.arg))) # Split(Join(op.arg))) =>
        ValueOf(heap, scan.currentStyle) =
            ParseValue(op.pre[2], Kept(Split(Join(op.arg))))

\* C26: styles are never mutated in place: parseAnsiCode leaves the style
\* object passed as previousStyle, and every other object allocated before
\* the call, unchanged for every code, so the style attached to a code point
\* that NewEntry has appended does not change when later escape sequences
\* are parsed.
C26_NoMutation ==
    [][op'.name = "parseAnsiCode" =>
          /\ Len(heap') >= Len(heap)
          /\ \A k \in 1..Len(heap) : heap'[k] = heap[k]]_vars

\* a code that changes fields of a non-empty previous style: the result is
\* another object and the previous one still holds its fields
C26_Witness ==
    /\ op.name = "parseAnsiCode"
    /\ op.pre[1] # 0 /\ op.pre[2] # EmptyStyle
    /\ scan.currentStyle # 0
    /\ scan.currentStyle # op.pre[1]
    /\ heap[scan.currentStyle] # op.pre[2]
    /\ heap[op.pre[1]] = op.pre[2]

\* a rendered text cut into its escape sequences, each from its ESC on
RECURSIVE EscapesOf(_)
EscapesFrom(text, k) ==
    <<SubSeq(text, 1, k - 1)>> \o EscapesOf(SubSeq(text, k, Len(text)))
EscapesOf(text) ==
    IF text = <<>> THEN <<>>
    ELSE IF \E k \in 2..Len(text) : text[k] = ESC
    THEN EscapesFrom(text, CHOOSE k \in 2..Len(text) :
                               text[k] = ESC /\ \A j \in 2..(k - 1) : text[j] # ESC)
    ELSE <<text>>

\* the style value a terminal is left with after the escape sequences
RECURSIVE Replay(_, _)
Replay(v, codes) ==
    IF codes = <<>> THEN v
    ELSE Replay(parsedFrom(parseAnsiCode(<<v>>, Head(codes), 1)), Tail(codes))

Flags == {"bold", "faint", "italic", "underline", "strike", "blink",
          "reverse", "hidden"}
ActiveCount(v) ==
    Cardinality({f \in Flags : v[f]})
    + (IF v.fg # <<>> THEN 1 ELSE 0) + (IF v.bg # <<>> THEN 1 ELSE 0)

\* C27 as stated: cur.Render(prev) is the empty string whenever cur and prev
\* are structurally equal (two equal non-empty styles included), and
\* otherwise a full-reset escape followed by one escape per active field or
\* flag of cur.
C27_Original ==
    op.name = "Render" =>
        LET cur == ValueOf(heap, op.arg[1])
            prev == ValueOf(heap, op.arg[2])
            codes == EscapesOf(out.lines[1])
        IN  IF cur = prev THEN out.lines[1] = <<>>
            ELSE /\ Len(codes) = ActiveCount(cur) + 1
                 /\ codes[1] = ResetEscape
                 /\ Replay(prev, codes) = cur

\* C27, amended: cur.Render(prev) is one escape per active field or flag of
\* cur, preceded by a full-reset escape exactly when prev is not empty,
\* whether or not cur equals prev; it takes a terminal from prev to cur, and
\* it is the empty string exactly when cur and prev are both empty.
C27_RenderResets ==
    op.name = "Render" =>
        LET cur == ValueOf(heap, op.arg[1])
            prev == ValueOf(heap, op.arg[2])
            codes == EscapesOf(out.lines[1])
        IN  /\ Len(codes) = ActiveCount(cur) + (IF prev # EmptyStyle THEN 1 ELSE 0)
            /\ prev # EmptyStyle => codes[1] = ResetEscape
            /\ \A k \in 1..Len(codes) :
                  codes[k] = ResetEscape => (k = 1 /\ prev # EmptyStyle)
            /\ Replay(prev, codes) = cur
            /\ out.lines[1] = <<>> <=> (cur = EmptyStyle /\ prev = EmptyStyle)

\* two equal non-empty styles in two objects: a reset and the style again
C27_Witness ==
    /\ op.name = "Render"
    /\ op.arg[1] # op.arg[2] /\ op.arg[1] # 0 /\ op.arg[2] # 0
    /\ heap[op.arg[1]] = heap[op.arg[2]]
    /\ heap[op.arg[1]] = RedOnBlue
    /\ Len(EscapesOf(out.lines[1])) = 5

\* a non-empty style after an empty one: no reset
C27_WitnessNoReset ==
    /\ op.name = "Render"
    /\ op.arg[1] # 0 /\ heap[op.arg[1]] = Bold
    /\ op.arg[2] # 0 /\ heap[op.arg[2]] = EmptyStyle
    /\ out.lines[1] = <<ESC, "[", "1", "m">>

(***************************************************************************)
(* NewEntry: the scan of a string into styled code points, one turn of its *)
(* loop per step, and the strings read back from the entry it returns      *)
(***************************************************************************)
MaxPieces == 4      \* most pieces of the string given to NewEntry
MaxRunes == 3       \* most code points of an entry styledSubstring is called on

\* the final bytes of ansiOtherRegex
Finals == {"A", "B", "C", "D", "E", "F", "G", "H", "J", "K", "S", "T", "f",
           "s", "u", "h", "l"}

\* how many digits the string s has from position q (1-based) on
RECURSIVE digitRun(_, _)
digitRun(s, q) ==
    IF q <= Len(s) /\ s[q] \in Digit THEN 1 + digitRun(s, q + 1) ELSE 0

\* (;[0-9]{1,maxDigits})* and the final byte, from position q on, a number
\* having just been read: the position of the final byte, 0 for no match
RECURSIVE matchTail(_, _, _, _)
matchMore(s, q, maxDigits, finals, n) ==
    IF n >= 1 /\ n <= maxDigits THEN matchTail(s, q + n, maxDigits, finals) ELSE 0
matchTail(s, q, maxDigits, finals) ==
    IF q > Len(s) THEN 0
    ELSE IF s[q] \in finals THEN q
    ELSE IF s[q] = ";" THEN matchMore(s, q + 1, maxDigits, finals,
                                      digitRun(s, q + 1))
    ELSE 0

\* ESC [ ([0-9]{1,maxDigits}(;[0-9]{1,maxDigits})*)? final, matched at
\* position p: the position of the final byte, 0 for no match
matchAt(s, p, maxDigits, finals) ==
    IF p + 2 > Len(s) \/ s[p] # ESC \/ s[p + 1] # "[" THEN 0
    ELSE IF s[p + 2] \in finals THEN p + 2
    ELSE matchMore(s, p + 2, maxDigits, finals, digitRun(s, p + 2))

ansiStyleRegex(s, p) == matchAt(s, p, 3, {"m"})
ansiOtherRegex(s, p) == matchAt(s, p, Len(s), Finals)

\* ansiOtherRegex.ReplaceAllString(s, ""), from position p on
RECURSIVE ReplaceAllString(_, _)
replaceFrom(s, p, m) ==
    IF m > 0 THEN ReplaceAllString(s, m + 1)
    ELSE <<s[p]>> \o ReplaceAllString(s, p + 1)
ReplaceAllString(s, p) ==
    IF p > Len(s) THEN <<>> ELSE replaceFrom(s, p, ansiOtherRegex(s, p))

\* ansiStyleRegex.FindStringIndex(data[i:]): the end (0-based, exclusive, in
\* data) of the leftmost match that starts at index i or later, 0 for nil
FindStringIndex(data, i) ==
    IF \E p \in (i + 1)..Len(data) : ansiStyleRegex(data, p) > 0
    THEN ansiStyleRegex(data, CHOOSE p \in (i + 1)..Len(data) :
                                  /\ ansiStyleRegex(data, p) > 0
                                  /\ \A q \in (i + 1)..(p - 1) :
                                         ansiStyleRegex(data, q) = 0)
    ELSE 0

\* the turn of the loop that reads an escape code ending at m
scanCode(h, sc, m, r) ==
    [heap |-> r.heap,
     scan |-> [sc EXCEPT !.currentStyle = r.ptr, !.i = m]]

\* the turn of the loop that appends the code point at index i
scanRune(h, sc) ==
    [heap |-> h,
     scan |-> [sc EXCEPT
                 !.styledData = Append(@, [Rune |-> sc.data[sc.i + 1],
                                           Style |-> sc.currentStyle]),
                 !.i = @ + 1]]

scanAt(h, sc, m) ==
    IF m # 0
    THEN scanCode(h, sc, m, parseAnsiCode(h, SubSeq(sc.data, sc.i + 1, m),
                                          sc.currentStyle))
    ELSE scanRune(h, sc)

\* one turn of the loop of NewEntry
scanStep(h, sc) ==
    IF sc.data[sc.i + 1] = ESC /\ sc.i + 1 < Len(sc.data)
       /\ sc.data[sc.i + 2] = "["
    THEN scanAt(h, sc, FindStringIndex(sc.data, sc.i))
    ELSE scanRune(h, sc)

\* the loop to its end
RECURSIVE scanLoop(_, _)
scanNext(r) == scanLoop(r.heap, r.scan)
scanLoop(h, sc) ==
    IF sc.i < Len(sc.data) THEN scanNext(scanStep(h, sc))
    ELSE [heap |-> h, scan |-> sc]

\* NewEntry up to its loop: the control sequences are removed and
\* currentStyle is a new empty style
scanStart(h, sc) ==
    [heap |-> Append(h, EmptyStyle),
     scan |-> [sc EXCEPT !.data = ReplaceAllString(@, 1), !.i = 0,
                         !.styledData = <<>>, !.currentStyle = Len(h) + 1]]

\* NewEntry(data): the locals at its return, and the heap with its styles
NewEntry(h, data) ==
    scanNext(scanStart(h, [data |-> data, i |-> 0, styledData |-> <<>>,
                            currentStyle |-> 0]))

Entry_String(styledData) ==
    [k \in 1..Len(styledData) |-> styledData[k].Rune]

\* the loop of styledSubstring from index i on, and the closing reset
RECURSIVE substringLoop(_, _, _, _, _)
substringLoop(h, styledData, i, end, lastStyle) ==
    IF i >= end
    THEN IF lastStyle # 0 /\ ~isEmpty(h, lastStyle) THEN ResetEscape ELSE <<>>
    ELSE (IF styledData[i + 1].Style # lastStyle
          THEN IF lastStyle = 0
               THEN style_String(h, styledData[i + 1].Style)
               ELSE style_Render(h, styledData[i + 1].Style, lastStyle)
          ELSE <<>>)
         \o <<styledData[i + 1].Rune>>
         \o substringLoop(h, styledData, i + 1, end, styledData[i + 1].Style)

Entry_styledSubstring(h, styledData, start, end) ==
    IF start >= end THEN <<>>
    ELSE IF Len(styledData) = 0 THEN <<>>
    ELSE substringLoop(h, styledData, start, end, 0)

Entry_StyledString(h, styledData) ==
    Entry_styledSubstring(h, styledData, 0, Len(styledData))

\* the pieces a string given to NewEntry is put together from: plain text,
\* SGR sequences (one of them with a parameter of four digits), a control
\* sequence that is stripped, and an escape sequence cut short
PlainPieces == {<<"a">>, <<"b">>}
SgrPieces == {<<ESC, "[", "1", "m">>, <<ESC, "[", "0", "m">>,
              <<ESC, "[", "3", "1", "m">>,
              <<ESC, "[", "1", "0", "0", "0", "m">>}
ControlPieces == {<<ESC, "[", "2", "J">>}
CutPieces == {<<ESC, "[">>}
PiecePool == PlainPieces \cup SgrPieces \cup ControlPieces \cup CutPieces
Inputs == UNION {[1..n -> PiecePool] : n \in 0..MaxPieces}

\* the pieces one after the other
RECURSIVE Concat(_)
Concat(pieces) ==
    IF pieces = <<>> THEN <<>> ELSE Head(pieces) \o Concat(Tail(pieces))

\* scan.pc: "call" at the call of NewEntry, "loop" in its loop, "done" after
\* its return.  scan.pieces is how the argument was put together, scan.from
\* the entry whose StyledString() is the argument, if it is one.
InitAnsi ==
    /\ hScroll = FALSE /\ vScroll = FALSE
    /\ width = 0 /\ height = 0 /\ x = 0 /\ y = 0
    /\ lines = 0 /\ maxLineWidth = 0
    /\ out = NoView
    /\ entries = NewCircularBuffer(0)
    /\ appended = <<>>
    /\ pure = FALSE
    /\ heap = <<>>
    /\ Unused
    /\ \E pieces \in Inputs :
          scan = [pc |-> "call", pieces |-> pieces, from |-> <<>>,
                  data |-> Concat(pieces), i |-> 0, styledData |-> <<>>,
                  currentStyle |-> 0]
    /\ op = [name |-> "NewEntry", arg |-> <<>>, pre |-> NoPre]

\* NewEntry goes on to the state r, at position pc
NewEntryTo(r, pc) ==
    /\ heap' = r.heap
    /\ scan' = [r.scan EXCEPT !.pc = pc]
    /\ op' = [name |-> "NewEntry", arg |-> <<>>, pre |-> NoPre]
    /\ out' = NoView
    /\ StyleIdle

NewEntryStart ==
    /\ scan.pc = "call"
    /\ NewEntryTo(scanStart(heap, scan), "loop")

NewEntryLoop ==
    /\ scan.pc = "loop"
    /\ scan.i < Len(scan.data)
    /\ NewEntryTo(scanStep(heap, scan), "loop")

NewEntryReturn ==
    /\ scan.pc = "loop"
    /\ scan.i >= Len(scan.data)
    /\ NewEntryTo([heap |-> heap, scan |-> scan], "done")

\* a method of the entry returns the string str
EntryReturns(name, args, str) ==
    /\ scan.pc = "done"
    /\ op' = [name |-> name, arg |-> args, pre |-> NoPre]
    /\ out' = [panic |-> FALSE, lines |-> <<str>>, called |-> TRUE]
    /\ UNCHANGED <<heap, scan>>
    /\ StyleIdle

CallString ==
    /\ EntryReturns("String", <<>>, Entry_String(scan.styledData))

CallStyledString ==
    /\ EntryReturns("StyledString", <<>>,
                    Entry_StyledString(heap, scan.styledData))

CallStyledSubstring ==
    /\ Len(scan.styledData) <= MaxRunes
    /\ \E start \in 0..Len(scan.styledData), end \in 0..Len(scan.styledData) :
          EntryReturns("styledSubstring", <<start, end>>,
                       Entry_styledSubstring(heap, scan.styledData, start, end))

\* the style values of the code points of an entry
StyleValues(h, styledData) ==
    [k \in 1..Len(styledData) |-> ValueOf(h, styledData[k].Style)]

\* NewEntry(e.StyledString()) is called for the entry e just built
NewEntryOfStyledString ==
    /\ scan.pc = "done"
    /\ scan.from = <<>>
    /\ scan' = [pc |-> "call", pieces |-> <<>>,
                from |-> <<[text |-> Entry_StyledString(heap, scan.styledData),
                            runes |-> Entry_String(scan.styledData),
                            styles |-> StyleValues(heap, scan.styledData)]>>,
                data |-> Entry_StyledString(heap, scan.styledData),
                i |-> 0, styledData |-> <<>>, currentStyle |-> 0]
    /\ op' = [name |-> "NewEntry", arg |-> <<>>, pre |-> NoPre]
    /\ out' = NoView
    /\ UNCHANGED heap
    /\ StyleIdle

NextAnsi ==
    \/ NewEntryStart
    \/ NewEntryLoop
    \/ NewEntryReturn
    \/ CallString
    \/ CallStyledString
    \/ CallStyledSubstring
    \/ NewEntryOfStyledString

SpecAnsi == InitAnsi /\ [][NextAnsi]_vars

(***************************************************************************)
(* C28..C30: claims on NewEntry and the strings read back (SpecAnsi)       *)
(***************************************************************************)
PlainChars == {"a", "b"}

\* the positions of the plain characters of a text, in order
PlainPositions(text) ==
    SelectSeq([k \in 1..Len(text) |-> k], LAMBDA k : text[k] \in PlainChars)

\* C28: style changes are detected by value: in the output of
\* styledSubstring (and StyledString) no escape sequence stands between two
\* adjacent code points whose styles are structurally equal, also when the
\* styles come from separate escape sequences and are different objects
\* (bold text followed by a second, redundant bold escape); escapes are
\* emitted only where the style value changes.
C28_ByValue ==
    (/\ op.name \in {"styledSubstring", "StyledString"}
     /\ \A k \in 1..Len(scan.styledData) : scan.styledData[k].Rune \in PlainChars) =>
        LET sd == scan.styledData
            start == IF op.name = "StyledString" THEN 0 ELSE op.arg[1]
            end == IF op.name = "StyledString" THEN Len(sd) ELSE op.arg[2]
            at == PlainPositions(out.lines[1])
        IN  /\ Len(at) = Max(end - start, 0)
            /\ \A j \in 1..(Len(at) - 1) :
                  ValueOf(heap, sd[start + j].Style) = ValueOf(heap, sd[start + j + 1].Style)
                      => at[j + 1] = at[j] + 1

\* C29: idempotent re-rendering: for every entry e built by NewEntry,
\* NewEntry(e.StyledString()).StyledString() == e.StyledString(), and the
\* re-parsed entry has the same code points, with structurally equal styles
\* at every position.
C29_Idempotent ==
    (scan.pc = "done" /\ scan.from # <<>>) =>
        /\ Entry_String(scan.styledData) = scan.from[1].runes
        /\ StyleValues(heap, scan.styledData) = scan.from[1].styles
        /\ op.name = "StyledString" => out.lines[1] = scan.from[1].text

\* the plain text among the pieces, in order
PlainOf(pieces) == Concat(SelectSeq(pieces, LAMBDA p : p \in PlainPieces))

\* C30: plain-text round trip: for every input s made only of plain text,
\* SGR sequences (ESC [ params m) and stripped control sequences,
\* NewEntry(s).String() is s with every such sequence removed, in the
\* original order, with no other character added, dropped or changed.
C30_PlainRoundTrip ==
    (/\ op.name = "String"
     /\ scan.from = <<>>
     /\ \A k \in 1..Len(scan.pieces) :
           scan.pieces[k] \in PlainPieces \cup SgrPieces \cup ControlPieces) =>
        out.lines[1] = PlainOf(scan.pieces)

(***************************************************************************)
(* tapioca.Scrollable and pearl.Block, which embeds it.  A Block           *)
(* is the record [entries, maxWidth, x, y, w, h]; the two functions        *)
(* NewBlock hands to NewScrollable read maxWidth and len(entries).         *)
(***************************************************************************)
maxW(s) == s.maxWidth
maxH(s) == Len(s.entries)

NewBlock == [entries |-> <<>>, maxWidth |-> 0, x |-> 0, y |-> 0, w |-> 0, h |-> 0]

Scrollable_ScrollUp(s, n) ==
    [s EXCEPT !.y = Max(0, wrapInt(s.y - Max(n, 0)))]

Scrollable_ScrollDown(s, n) ==
    [s EXCEPT !.y = Min(Max(0, wrapInt(maxH(s) - s.h)), wrapInt(s.y + Max(n, 0)))]

Scrollable_ScrollToTop(s) == [s EXCEPT !.y = 0]

Scrollable_ScrollToBottom(s) == [s EXCEPT !.y = Max(0, wrapInt(maxH(s) - s.h))]

Scrollable_ScrollLeft(s, n) ==
    [s EXCEPT !.x = Max(0, wrapInt(s.x - Max(n, 0)))]

Scrollable_ScrollRight(s, n) ==
    [s EXCEPT !.x = Min(Max(0, wrapInt(maxW(s) - s.w)), wrapInt(s.x + Max(n, 0)))]

Scrollable_ScrollToBegin(s) == [s EXCEPT !.x = 0]

Scrollable_ScrollToEnd(s) == [s EXCEPT !.x = Max(0, wrapInt(maxW(s) - s.w))]

Scrollable_ScrollTo(s, col, row) ==
    Scrollable_ScrollDown(
        Scrollable_ScrollRight(Scrollable_ScrollToTop(Scrollable_ScrollToBegin(s)), col),
        row)

\* case ResizeMsg of HandleEvent
Scrollable_Resize(s, mw, mh) ==
    [s EXCEPT !.w = mw, !.h = mh,
              !.x = Min(Max(0, wrapInt(maxW(s) - mw)), s.x),
              !.y = Min(Max(0, wrapInt(maxH(s) - mh)), s.y)]

Scrollable_HandleEvent(s, msg) ==
    CASE msg.type = "ResizeMsg" -> Scrollable_Resize(s, msg.arg[1], msg.arg[2])
      [] msg.type = "ScrollBeginMsg" -> Scrollable_ScrollToBegin(s)
      [] msg.type = "ScrollEndMsg" -> Scrollable_ScrollToEnd(s)
      [] msg.type = "ScrollLeftMsg" -> Scrollable_ScrollLeft(s, toInt(msg.arg[1]))
      [] msg.type = "ScrollRightMsg" -> Scrollable_ScrollRight(s, toInt(msg.arg[1]))
      [] msg.type = "ScrollTopMsg" -> Scrollable_ScrollToTop(s)
      [] msg.type = "ScrollBottomMsg" -> Scrollable_ScrollToBottom(s)
      [] msg.type = "ScrollUpMsg" -> Scrollable_ScrollUp(s, toInt(msg.arg[1]))
      [] msg.type = "ScrollDownMsg" -> Scrollable_ScrollDown(s, toInt(msg.arg[1]))
      [] msg.type = "ScrollToMsg" -> Scrollable_ScrollTo(s, msg.arg[1], msg.arg[2])
      [] OTHER -> s

Block_SetContent(b, data) ==
    [b EXCEPT !.entries = data, !.maxWidth = MaxWidthOf(data, 0)]

\* case BlockSetContentMsg of UpdateInto, for a message that carries b's id
Block_UpdateInto(b, msg) ==
    IF msg.type = "BlockSetContentMsg" THEN Block_SetContent(b, msg.data)
    ELSE Scrollable_HandleEvent(b, msg)

\* the rows of View(): the first h entries moved to column x, then blank rows
Block_View(b) ==
    [i \in 1..Max(b.h, 0) |->
        IF i <= Len(b.entries) THEN StyledMove(b.entries[i], b.x, b.w)
        ELSE Spaces(b.w)]

(***************************************************************************)
(* A Block on its own: content is set, messages are handled, the           *)
(* Scrollable's methods are called directly and View() is read.            *)
(***************************************************************************)
\* the contents a status producer sets: none, one line, and lists longer
\* than the heights of BlockSizes whose lines all differ
Contents == {<<>>, <<<<1>>>>, <<<<1>>, <<2>>, <<1, 1>>>>, <<<<1, 2>>, <<>>, <<2, 2>>, <<1>>>>}

BlockSizes == (0..MaxWidth) \X (0..MaxHeight)

\* unsigned message values, up to the first that int() turns negative
UintArgs == {0, 1, IntMax, IntMax + 1}

\* arguments of direct calls
IntArgs == {-1, 1, IntMax}

BlockIdle ==
    UNCHANGED <<hScroll, vScroll, width, height, x, y, entries, lines, maxLineWidth,
                appended, pure, heap, scan, got, Reverse, layout, runner>>

InitBlock ==
    /\ hScroll = FALSE /\ vScroll = FALSE
    /\ width = 0 /\ height = 0 /\ x = 0 /\ y = 0
    /\ lines = 0 /\ maxLineWidth = 0
    /\ out = NoView
    /\ entries = NewCircularBuffer(0)
    /\ appended = <<>>
    /\ pure = FALSE
    /\ heap = <<>>
    /\ scan = NoScan
    /\ got = NoSlice /\ Reverse = FALSE /\ layout = NoLayout /\ runner = NoRunner
    /\ block = NewBlock
    /\ op = [name |-> "NewBlock", arg |-> <<>>, pre |-> NoPre]

\* the block handles the message, or the method is called, that name and arg
\* stand for: b is the result.  A run ends once an offset has left the
\* integers from 0 on, which keeps the wrapped values few
BlockBecomes(name, arg, b) ==
    /\ block.x >= 0 /\ block.y >= 0
    /\ block' = b
    /\ op' = [name |-> name, arg |-> <<>>, pre |-> NoPre]
    /\ out' = NoView
    /\ BlockIdle

BlockHandles(type, arg) ==
    BlockBecomes(type, arg, Block_UpdateInto(block, [type |-> type, arg |-> arg]))

BlockSetContentMsg ==
    /\ \E data \in Contents :
          BlockBecomes("BlockSetContentMsg", <<Len(data)>>,
                       Block_UpdateInto(block, [type |-> "BlockSetContentMsg", data |-> data]))

BlockResizeMsg ==
    /\ \E s \in BlockSizes : BlockHandles("ResizeMsg", s)

BlockScrollUpMsg ==
    /\ \E n \in UintArgs : BlockHandles("ScrollUpMsg", <<n>>)

BlockScrollDownMsg ==
    /\ \E n \in UintArgs : BlockHandles("ScrollDownMsg", <<n>>)

BlockScrollLeftMsg ==
    /\ \E n \in UintArgs : BlockHandles("ScrollLeftMsg", <<n>>)

BlockScrollRightMsg ==
    /\ \E n \in UintArgs : BlockHandles("ScrollRightMsg", <<n>>)

BlockScrollTopMsg ==
    /\ BlockHandles("ScrollTopMsg", <<>>)

BlockScrollBottomMsg ==
    /\ BlockHandles("ScrollBottomMsg", <<>>)

BlockScrollBeginMsg ==
    /\ BlockHandles("ScrollBeginMsg", <<>>)

BlockScrollEndMsg ==
    /\ BlockHandles("ScrollEndMsg", <<>>)

BlockScrollToMsg ==
    /\ \E c \in IntArgs, r \in IntArgs : BlockHandles("ScrollToMsg", <<c, r>>)

\* direct calls of the ScrollController methods that take an argument
CallScrollUp ==
    /\ \E n \in IntArgs : BlockBecomes("ScrollUp", <<n>>, Scrollable_ScrollUp(block, n))

CallScrollDown ==
    /\ \E n \in IntArgs : BlockBecomes("ScrollDown", <<n>>, Scrollable_ScrollDown(block, n))

CallScrollLeft ==
    /\ \E n \in IntArgs : BlockBecomes("ScrollLeft", <<n>>, Scrollable_ScrollLeft(block, n))

CallScrollRight ==
    /\ \E n \in IntArgs : BlockBecomes("ScrollRight", <<n>>, Scrollable_ScrollRight(block, n))

\* View(): op.pre remembers the operation before it
BlockView ==
    /\ op.name # "View"
    /\ out' = [panic |-> FALSE, lines |-> Block_View(block), called |-> TRUE]
    /\ op' = [name |-> "View", arg |-> <<>>, pre |-> <<op.name>>]
    /\ UNCHANGED block
    /\ BlockIdle

NextScrollable ==
    \/ BlockResizeMsg
    \/ BlockScrollUpMsg
    \/ BlockScrollDownMsg
    \/ BlockScrollLeftMsg
    \/ BlockScrollRightMsg
    \/ BlockScrollTopMsg
    \/ BlockScrollBottomMsg
    \/ BlockScrollBeginMsg
    \/ BlockScrollEndMsg
    \/ BlockScrollToMsg
    \/ CallScrollUp
    \/ CallScrollDown
    \/ CallScrollLeft
    \/ CallScrollRight

NextBlock ==
    \/ BlockSetContentMsg
    \/ BlockView
    \/ NextScrollable

SpecBlock == InitBlock /\ [][NextBlock]_vars

\* C31: in a Block that holds more entries than its height, the View() that
\* follows ScrollDownMsg(k) shows entry Y() + i in row i, and the View()
\* that follows ScrollTopMsg shows entry 0 in its first row
C31_VerticalScroll ==
    (/\ op.name = "View"
     /\ op.pre[1] \in {"ScrollDownMsg", "ScrollTopMsg"}
     /\ Len(block.entries) > block.h
     /\ block.h > 0)
    => /\ op.pre[1] = "ScrollTopMsg" =>
            out.lines[1] = StyledMove(block.entries[1], block.x, block.w)
       /\ \A i \in 1..block.h :
            block.y + i <= Len(block.entries) =>
                out.lines[i] = StyledMove(block.entries[block.y + i], block.x, block.w)

(***************************************************************************)
(* A Scrollable whose maxW() and maxH() are constant: the Block's content  *)
(* is set before the first message and never again.                        *)
(***************************************************************************)
InitScrollable ==
    /\ hScroll = FALSE /\ vScroll = FALSE
    /\ width = 0 /\ height = 0 /\ x = 0 /\ y = 0
    /\ lines = 0 /\ maxLineWidth = 0
    /\ out = NoView
    /\ entries = NewCircularBuffer(0)
    /\ appended = <<>>
    /\ pure = FALSE
    /\ heap = <<>>
    /\ scan = NoScan
    /\ got = NoSlice /\ Reverse = FALSE /\ layout = NoLayout /\ runner = NoRunner
    /\ \E data \in Contents : block = Block_SetContent(NewBlock, data)
    /\ op = [name |-> "NewScrollable", arg |-> <<>>, pre |-> NoPre]

SpecScrollable == InitScrollable /\ [][NextScrollable]_vars

InBounds(s) ==
    /\ 0 <= s.x /\ s.x <= Max(0, maxW(s) - s.w)
    /\ 0 <= s.y /\ s.y <= Max(0, maxH(s) - s.h)

\* C39: after every HandleEvent and every direct Scroll* call,
\* 0 <= X() <= max(0, maxW() - Width()) and 0 <= Y() <= max(0, maxH() - Height());
\* a ResizeMsg keeps a position that is still in bounds and moves any other
\* to the nearest bound
C39_StaysInBounds ==
    [][/\ InBounds(block')
       /\ op'.name = "ResizeMsg" =>
            /\ block'.x = Min(block.x, Max(0, maxW(block') - block'.w))
            /\ block'.y = Min(block.y, Max(0, maxH(block') - block'.h))]_vars

(***************************************************************************)
(* C33: the special case of width 1                                        *)
(***************************************************************************)
\* the index (0-based) of the code point of e that covers column c
Covering(e, c) ==
    CHOOSE i \in 0..(Len(e) - 1) : FirstCol(e, i) <= c /\ c < FirstCol(e, i) + e[i + 1]

\* the columns of a result of computeStartAndEndForShift on e: the two
\* padding flags and the code points startIdx .. endIdx-1
SegmentWidth(e, r) ==
    r[3] + r[4] + SumSeq(SubSeq(e, r[1] + 1, r[2]))

\* C33: computeStartAndEndForShift returns a segment wider than the requested
\* width only when width is 1 and the code point that covers startCol is
\* wide, and then it is that code point, whole, with hasPrefix and hasSuffix
\* false; for every width >= 2 the segment is at most width columns, and for
\* width 1 over a narrow code point it is exactly 1 column.  startCol is a
\* column of the entry, as it is for every caller.
C33_WidthOneOnly ==
    (/\ op.name = "computeStartAndEndForShift"
     /\ op.arg[1] >= 0 /\ op.arg[1] < Entry_Width(TheEntry)
     /\ op.arg[2] >= 1) =>
        LET e == TheEntry
            startCol == op.arg[1]
            w == op.arg[2]
            r == out.lines[1]
            c == Covering(e, startCol)
        IN  /\ SegmentWidth(e, r) > w =>
                /\ w = 1 /\ e[c + 1] = 2
                /\ r = <<c, c + 1, 0, 0>>
            /\ w >= 2 => SegmentWidth(e, r) <= w
            /\ (w = 1 /\ e[c + 1] = 1) => SegmentWidth(e, r) = 1
            /\ (w = 1 /\ e[c + 1] = 2) => r = <<c, c + 1, 0, 0>>

\* a window of one column on the second column of a wide code point: the
\* code point is returned whole
C33_Witness ==
    /\ op.name = "computeStartAndEndForShift"
    /\ op.arg[2] = 1
    /\ op.arg[1] >= 1 /\ op.arg[1] < Entry_Width(TheEntry)
    /\ TheEntry[Covering(TheEntry, op.arg[1]) + 1] = 2
    /\ FirstCol(TheEntry, Covering(TheEntry, op.arg[1])) = op.arg[1] - 1
    /\ SegmentWidth(TheEntry, out.lines[1]) = 2

\* a window of two columns that starts on a wide code point and ends on the
\* first column of the next wide code point: one code point and a space
C33_WitnessWide ==
    /\ op.name = "computeStartAndEndForShift"
    /\ op.arg[2] = 3
    /\ op.arg[1] >= 0 /\ op.arg[1] < Entry_Width(TheEntry)
    /\ TheEntry[Covering(TheEntry, op.arg[1]) + 1] = 2
    /\ out.lines[1][4] = 1
    /\ SegmentWidth(TheEntry, out.lines[1]) = 3

(***************************************************************************)
(* C36: no text is lost while parsing (SpecAnsi)                           *)
(***************************************************************************)
\* the code point at position k of s is part of a substring that matches
\* the SGR pattern or the pattern of the stripped control sequences
InMatch(s, k) ==
    \E p \in 1..k : \/ ansiStyleRegex(s, p) >= k
                    \/ ansiOtherRegex(s, p) >= k

\* the code points of s that are part of no such substring, in order
Unmatched(s) ==
    SelectSeq([k \in 1..Len(s) |-> <<k, s[k]>>], LAMBDA c : ~InMatch(s, c[1]))

\* the code points of a appear in b, in order
RECURSIVE IsSubsequence(_, _)
IsSubsequence(a, b) ==
    IF a = <<>> THEN TRUE
    ELSE IF b = <<>> THEN FALSE
    ELSE IF Head(a) = Head(b) THEN IsSubsequence(Tail(a), Tail(b))
    ELSE IsSubsequence(a, Tail(b))

\* C36: no text is lost while parsing: for every input string, each code
\* point that is not part of a substring matching the SGR pattern or the
\* stripped-control pattern appears in NewEntry(s).String(), in order; in
\* particular the characters between an ESC [ that starts no valid SGR
\* sequence and a valid SGR sequence further on are kept.
C36_NoTextLost ==
    (op.name = "String" /\ scan.from = <<>>) =>
        LET s == Concat(scan.pieces)
            kept == Unmatched(s)
        IN  IsSubsequence([k \in 1..Len(kept) |-> kept[k][2]], out.lines[1])

(***************************************************************************)
(* C38: the slice GetAll() returned (SpecSnapshot)                         *)
(***************************************************************************)
\* C38: GetAll returns a stable snapshot: the slice returned by
\* CircularBuffer.GetAll() keeps its contents when Append, Prepend or Reset
\* are called on the buffer afterwards; no later insertion overwrites an
\* element of a previously returned slice.
C38_StableSnapshot ==
    got.kind = "slice" => SliceNow(got, entries) = got.snapshot

(***************************************************************************)
(* pearl.LogPanel: a Component that wraps and scrolls vertically, fed by   *)
(* LogMsg (SpecLog)                                                        *)
(***************************************************************************)
\* stands for the 10 entries NewLogPanel gives a panel at least
MinLogSize == 2

\* the messages the loggers write, split at the newlines: one line, or two
\* lines the first or the second of which wraps
LogMsgs == {<<t>> : t \in Texts} \cup {<< <<1>>, <<2, 2>> >>, << <<2, 2>>, <<>> >>}

\* the loop "for _, line := range lines { add(string(line)) }"
RECURSIVE LogPanel_addAll(_, _, _)
LogPanel_addAll(cb, ls, reverse) ==
    IF ls = <<>> THEN cb
    ELSE LogPanel_addAll(IF reverse THEN CircularBuffer_Prepend(cb, Head(ls))
                         ELSE CircularBuffer_Append(cb, Head(ls)),
                         Tail(ls), reverse)

InitLog ==
    /\ hScroll = FALSE /\ vScroll = TRUE
    /\ width = 0 /\ height = 0 /\ x = 0 /\ y = 0
    /\ lines = 0 /\ maxLineWidth = 0
    /\ out = NoView
    /\ \E size \in {0, MinLogSize} :
          /\ entries = NewCircularBuffer(Max(size, MinLogSize))
          /\ op = [name |-> "NewLogPanel", arg |-> <<size>>, pre |-> NoPre]
    /\ appended = <<>>
    /\ pure = FALSE
    /\ heap = <<>>
    /\ scan = NoScan
    /\ got = NoSlice /\ block = NoBlock /\ layout = NoLayout /\ runner = NoRunner
    /\ Reverse \in BOOLEAN

LogIdle ==
    /\ out' = NoView
    /\ UNCHANGED <<hScroll, vScroll, appended, pure, heap, scan,
                   got, block, Reverse, layout, runner>>

\* mutant: the panel stays where it was scrolled to
LogPanel_LogMsg_Stay(msg) ==
    /\ entries' = LogPanel_addAll(entries, msg, Reverse)
    /\ recomputeCachedInfo(entries', width, height)
    /\ UNCHANGED <<x, y>>
    /\ op' = [name |-> "LogMsg", arg |-> msg, pre |-> <<GetAll(entries)>>]
    /\ UNCHANGED <<width, height>>
    /\ LogIdle

\* case LogMsg of LogPanel.UpdateInto
LogPanel_LogMsg(msg) ==
    /\ entries' = LogPanel_addAll(entries, msg, Reverse)
    /\ recomputeCachedInfo(entries', width, height)
    /\ IF ~Reverse
       THEN Constrain(x, IF vScroll THEN lines' - height ELSE y)
       ELSE UNCHANGED <<x, y>>
    /\ op' = [name |-> "LogMsg", arg |-> msg, pre |-> <<GetAll(entries)>>]
    /\ UNCHANGED <<width, height>>
    /\ LogIdle

\* case tapioca.ResizeMsg of LogPanel.UpdateInto
LogPanel_ResizeMsg(w, h) ==
    /\ width' = w /\ height' = h
    /\ recomputeCachedInfo(entries, w, h)
    /\ IF ~Reverse
       THEN Constrain(0, IF vScroll THEN lines' - h ELSE 0)
       ELSE Constrain(0, 0)
    /\ op' = [name |-> "ResizeMsg", arg |-> <<w, h>>, pre |-> Scrolled]
    /\ UNCHANGED entries
    /\ LogIdle

LogMsg ==
    /\ \E msg \in LogMsgs : LogPanel_LogMsg(msg)

LogResize ==
    /\ \E s \in Sizes : LogPanel_ResizeMsg(s[1], s[2])

\* the default case forwards the message to the component; View() is the
\* component's
NextLog ==
    \/ LogMsg
    \/ LogResize
    \/ ScrollUpMsg(1)
    \/ ScrollDownMsg(1)
    \/ ScrollDownFar
    \/ ScrollTopMsg
    \/ ScrollBottomMsg
    \/ View

SpecLog == InitLog /\ [][NextLog]_vars

\* the last line of the block of the newest entry at the width held
NewestLastLine ==
    LET ents == GetAll(entries)
        b == StyledBlock(ents[Len(ents)], width)
    IN  b[Len(b)]

\* the wrapped lines of all entries at the width held
ContentLines == SumLines(GetAll(entries), width)

\* C35: LogPanel follows the tail: for a LogPanel with Reverse == false,
\* after handling any LogMsg or any ResizeMsg (whatever scroll messages were
\* handled before), the vertical offset of its viewport equals
\* totalLines - height, so the last wrapped line of the newest entry is in
\* the last visible row whenever the content has at least `height` lines;
\* each newline-separated line of a LogMsg becomes one entry, in order.
C35_FollowsTail ==
    (~Reverse /\ op.name \in {"LogMsg", "ResizeMsg"}) =>
        /\ y = TotalLines - height
        /\ (width >= 1 /\ height >= 1 /\ Len(GetAll(entries)) > 0
            /\ ContentLines >= height) =>
               /\ ~Component_View.panic
               /\ Len(Component_View.lines) = height
               /\ Component_View.lines[height] = NewestLastLine
        /\ op.name = "LogMsg" =>
               LET all == op.pre[1] \o op.arg
               IN  GetAll(entries) = LastN(all, Min(Len(all), Capacity(entries)))

\* two lines appended to a panel scrolled to the top, the newest wrapping
C35_Witness ==
    /\ ~Reverse /\ op.name = "LogMsg" /\ Len(op.arg) = 2
    /\ op.arg[1] # op.arg[2]
    /\ width = 2 /\ height = 1
    /\ ContentLines > height
    /\ Len(StyledBlock(op.arg[2], width)) = 2

\* a resize of a panel holding more lines than rows
C35_WitnessResize ==
    /\ ~Reverse /\ op.name = "ResizeMsg" /\ op.pre = <<0, 0>>
    /\ width >= 2 /\ ContentLines > height /\ y > 0

(***************************************************************************)
(* lg.FixedLayout over two emptyLayout children (SpecLayout).  The layout  *)
(* is the record [reserve, horizontal, end, size, child]: size[k] is       *)
(* components[k-1].size and child[k] the w and h that child holds, which   *)
(* are those of the last ResizeMsg it was given.                           *)
(***************************************************************************)
MaxReserve == 2     \* largest reserve given to a FixedLayout

newFixed(horizontal, end, reserve) ==
    [reserve |-> reserve, horizontal |-> horizontal, end |-> end,
     size |-> <<0, 0>>,
     child |-> <<[w |-> 0, h |-> 0], [w |-> 0, h |-> 0]>>]

\* newMsg of handleResize
FixedLayout_newMsg(f, w, h, s) ==
    IF f.horizontal THEN [w |-> s, h |-> h] ELSE [w |-> w, h |-> s]

\* the second half of handleResize: the other child gets the rest
FixedLayout_handleRest(f, w, h, other, rest) ==
    [f EXCEPT !.size[other] = rest,
              !.child[other] = IF rest > 0 THEN FixedLayout_newMsg(f, w, h, rest)
                               ELSE @]

\* handleResize; at is reserveAt + 1
FixedLayout_handleResizeAt(f, w, h, newSize, at) ==
    FixedLayout_handleRest(
        IF f.size[at] # f.reserve
        THEN [f EXCEPT !.size[at] = f.reserve,
                       !.child[at] = FixedLayout_newMsg(f, w, h, f.reserve)]
        ELSE f,
        w, h, 3 - at, Max(wrapInt(newSize - f.reserve), 0))

FixedLayout_handleResize(f, w, h) ==
    FixedLayout_handleResizeAt(f, w, h, IF f.horizontal THEN w ELSE h,
                               IF f.end THEN 2 ELSE 1)

\* emptyLayout.View, as the lines of the string: w spaces, h times, and
\* once when h < 1
emptyLayout_View(e) == [i \in 1..Max(e.h, 1) |-> Spaces(e.w)]

\* strings.TrimRight(s, "\n") on the lines of s
RECURSIVE TrimRightNewlines(_)
TrimRightNewlines(ls) ==
    IF Len(ls) > 1 /\ ls[Len(ls)] = <<>>
    THEN TrimRightNewlines(SubSeq(ls, 1, Len(ls) - 1))
    ELSE ls

\* renderHorizontal: the lines are written one after the other, no newline
\* between them
RECURSIVE renderHorizontalFrom(_, _, _)
renderHorizontalFrom(l, r, i) ==
    IF i > Max(Len(l), Len(r)) THEN <<>>
    ELSE (IF i <= Len(l) THEN l[i] ELSE Spaces(Len(l[1])))
         \o (IF i <= Len(r) THEN r[i] ELSE Spaces(Len(r[1])))
         \o renderHorizontalFrom(l, r, i + 1)

renderHorizontal(left, right) ==
    <<renderHorizontalFrom(TrimRightNewlines(left), TrimRightNewlines(right), 1)>>

\* the line "Terminal too small", 18 columns wide
TooSmallLine == Spaces(18)

\* FixedLayout.View, v1 and v2 being the views of the two components
FixedLayout_ViewOf(f, v1, v2) ==
    IF f.size[1] = 0 \/ f.size[2] = 0 THEN <<TooSmallLine>>
    ELSE IF f.horizontal THEN renderHorizontal(v1, v2)
    ELSE TrimRightNewlines(v1) \o v2

FixedLayout_View(f) ==
    FixedLayout_ViewOf(f, emptyLayout_View(f.child[1]), emptyLayout_View(f.child[2]))

LayoutIdle ==
    UNCHANGED <<hScroll, vScroll, width, height, x, y, entries, lines,
                maxLineWidth, appended, pure, heap, scan, got, block, Reverse,
                runner>>

\* FixedLeftLayout, FixedRightLayout, FixedTopLayout, FixedBottomLayout
InitLayout ==
    /\ hScroll = FALSE /\ vScroll = FALSE
    /\ width = 0 /\ height = 0 /\ x = 0 /\ y = 0
    /\ lines = 0 /\ maxLineWidth = 0
    /\ out = NoView
    /\ entries = NewCircularBuffer(0)
    /\ appended = <<>>
    /\ pure = FALSE
    /\ heap = <<>>
    /\ scan = NoScan
    /\ got = NoSlice /\ block = NoBlock /\ Reverse = FALSE /\ runner = NoRunner
    /\ \E horizontal \in BOOLEAN, end \in BOOLEAN, reserve \in 1..MaxReserve :
          layout = newFixed(horizontal, end, reserve)
    /\ op = [name |-> "newFixed", arg |-> <<>>, pre |-> NoPre]

\* Update with a tapioca.ResizeMsg (a tea.WindowSizeMsg is handled alike)
LayoutResizeMsg ==
    /\ \E w \in 0..MaxWidth, h \in 0..MaxWidth :
          /\ layout' = FixedLayout_handleResize(layout, w, h)
          /\ op' = [name |-> "ResizeMsg", arg |-> <<w, h>>, pre |-> NoPre]
    /\ out' = NoView
    /\ LayoutIdle

LayoutView ==
    /\ out' = [panic |-> FALSE, lines |-> FixedLayout_View(layout), called |-> TRUE]
    /\ op' = [name |-> "View", arg |-> <<>>, pre |-> NoPre]
    /\ UNCHANGED layout
    /\ LayoutIdle

NextLayout ==
    \/ LayoutResizeMsg
    \/ LayoutView

SpecLayout == InitLayout /\ [][NextLayout]_vars

\* C34: FixedLayout keeps both children sized to their allotment: after
\* every ResizeMsg{w, h} handled by a FixedLayout whose reserve is smaller
\* than the split dimension, including a second and later resize that
\* changes only the dimension across the split, the reserved child has most
\* recently received a ResizeMsg for its current area (reserve x h for
\* left/right, w x reserve for top/bottom) and the other child one for the
\* remaining area.
C34_ChildrenSized ==
    LET w == op.arg[1]
        h == op.arg[2]
        split == IF layout.horizontal THEN w ELSE h
        at == IF layout.end THEN 2 ELSE 1
    IN  (op.name = "ResizeMsg" /\ layout.reserve < split) =>
            /\ layout.child[at] =
                  (IF layout.horizontal THEN [w |-> layout.reserve, h |-> h]
                   ELSE [w |-> w, h |-> layout.reserve])
            /\ layout.child[3 - at] =
                  (IF layout.horizontal THEN [w |-> split - layout.reserve, h |-> h]
                   ELSE [w |-> w, h |-> split - layout.reserve])

(***************************************************************************)
(* The NSLI screen: a BorderedBox around FixedBottomLayout(1, ., status)   *)
(* around FixedTopLayout(tlSize, tasks, lpBox), lpBox a BorderedBox with   *)
(* no left and right border around the log panel (SpecBorder).  layout is  *)
(* the record [root, all, main, lpBox, status]; in the two FixedLayouts    *)
(* child[k] is the size the k-th component was last given.  The task list  *)
(* and the log panel hold no entries; the rows of a border are written as  *)
(* blank rows of their width.                                              *)
(***************************************************************************)
MaxTermWidth == 5     \* widest terminal
MaxTermHeight == 8    \* tallest terminal
MaxTlSize == 2        \* largest tlSize

\* the terminal sizes: no room, the narrowest the root box renders at and
\* one column more; heights from no room to room for every part
TermWidths == {0, MaxTermWidth - 1, MaxTermWidth}
TermHeights == {0, 2, 3, 5, MaxTermHeight - 1, MaxTermHeight}

\* the width of the border runes after Init(): none of them is wide
vLineWidth == 1
hLineWidth == 1

NewBorderedBox(left, right) ==
    [Left |-> left, Right |-> right, Top |-> TRUE, Bottom |-> TRUE,
     w |-> 0, h |-> 0, wReserve |-> 0, hReserve |-> 0, hasError |-> FALSE]

BorderedBox_reserve(b, w, h, wr, hr) ==
    [b EXCEPT !.w = w, !.h = h,
              !.wReserve = Max(0, wr), !.hReserve = Max(0, hr),
              !.hasError = (Max(0, wr) < 2 \/ Max(0, hr) < 1)]

BorderedBox_computeSize(b, w, h) ==
    BorderedBox_reserve(b, w, h,
        w - (IF b.Left THEN vLineWidth ELSE 0) - (IF b.Right THEN vLineWidth ELSE 0),
        h - (IF b.Top THEN hLineWidth ELSE 0) - (IF b.Bottom THEN hLineWidth ELSE 0))

\* a view: the lines of the string, or a panic
Lines(ls) == [panic |-> FALSE, lines |-> ls]
Panicked == [panic |-> TRUE, lines |-> <<>>]

\* the loop over innerView of BorderedBox.View and the rows round it
BorderedBox_rows(b, innerView) ==
    IF Len(innerView) < b.hReserve THEN Panicked
    ELSE Lines((IF b.Top THEN <<Spaces(b.w)>> ELSE <<>>)
               \o [i \in 1..b.hReserve |->
                      (IF b.Left THEN <<0>> ELSE <<>>) \o innerView[i]
                      \o (IF b.Right THEN <<0>> ELSE <<>>)]
               \o (IF b.Bottom THEN <<Spaces(b.w)>> ELSE << <<>> >>))

\* the line "too small", 9 columns wide
BoxTooSmallLine == Spaces(9)

\* BorderedBox.View, inner being the view of the inner component
BorderedBox_View(b, inner) ==
    IF b.hasError THEN Lines(<<BoxTooSmallLine>>)
    ELSE IF inner.panic THEN Panicked
    ELSE BorderedBox_rows(b, TrimRightNewlines(inner.lines))

\* Span.View for the entry text and the size s
Span_View(text, s) ==
    LET ls == StyledBlock(text, s.w)
    IN  IF Len(ls) > s.h
        THEN (IF s.h > 0 THEN SubSeq(ls, 1, s.h) ELSE << <<>> >>)
        ELSE ls \o [i \in 1..(s.h - Len(ls)) |-> Spaces(s.w)]

\* Block.View of the task list, which holds no entry, at the size s
TaskList_View(s) ==
    IF s.h > 0 THEN [i \in 1..s.h |-> Spaces(s.w)] ELSE << <<>> >>

\* Component.View of the log panel, which holds no entry, at the size the
\* box round it reserves
LogPanel_View(b) ==
    IF b.wReserve <= 0 \/ b.hReserve <= 0 THEN << <<>> >>
    ELSE [i \in 1..b.hReserve |-> Spaces(b.wReserve)]

\* NSLIComponent(tlSize, .) after Init()
NSLIComponent(tlSize) ==
    [root |-> NewBorderedBox(TRUE, TRUE),
     all |-> newFixed(FALSE, TRUE, 1),
     main |-> newFixed(FALSE, FALSE, tlSize),
     lpBox |-> NewBorderedBox(FALSE, FALSE),
     status |-> <<>>]

\* the ResizeMsg on its way down: the box round the log panel
NSLI_resizeLpBox(t, root, all, main) ==
    [t EXCEPT !.root = root, !.all = all, !.main = main,
              !.lpBox = IF all.size[1] > 0 /\ main.size[2] > 0
                        THEN BorderedBox_computeSize(@, main.child[2].w, main.child[2].h)
                        ELSE @]

\* ... the layout of task list and log box, resized when its share is not 0
NSLI_resizeMain(t, root, all) ==
    NSLI_resizeLpBox(t, root, all,
        IF all.size[1] > 0
        THEN FixedLayout_handleResize(t.main, all.child[1].w, all.child[1].h)
        ELSE t.main)

\* ... the layout of the main part and the status line
NSLI_resizeAll(t, root) ==
    NSLI_resizeMain(t, root,
        FixedLayout_handleResize(t.all, root.wReserve, root.hReserve))

\* the root box handles ResizeMsg{w, h}
NSLI_Resize(t, w, h) ==
    NSLI_resizeAll(t, BorderedBox_computeSize(t.root, w, h))

\* the views, from the leaves up
NSLI_lpBoxView(t) == BorderedBox_View(t.lpBox, Lines(LogPanel_View(t.lpBox)))

NSLI_mainView(t) ==
    IF t.main.size[1] = 0 \/ t.main.size[2] = 0 THEN Lines(<<TooSmallLine>>)
    ELSE IF NSLI_lpBoxView(t).panic THEN Panicked
    ELSE Lines(FixedLayout_ViewOf(t.main, TaskList_View(t.main.child[1]),
                                  NSLI_lpBoxView(t).lines))

NSLI_allView(t) ==
    IF t.all.size[1] = 0 \/ t.all.size[2] = 0 THEN Lines(<<TooSmallLine>>)
    ELSE IF NSLI_mainView(t).panic THEN Panicked
    ELSE Lines(FixedLayout_ViewOf(t.all, NSLI_mainView(t).lines,
                                  Span_View(t.status, t.all.child[2])))

NSLI_View(t) == BorderedBox_View(t.root, NSLI_allView(t))

InitBorder ==
    /\ hScroll = FALSE /\ vScroll = FALSE
    /\ width = 0 /\ height = 0 /\ x = 0 /\ y = 0
    /\ lines = 0 /\ maxLineWidth = 0
    /\ out = NoView
    /\ entries = NewCircularBuffer(0)
    /\ appended = <<>>
    /\ pure = FALSE
    /\ heap = <<>>
    /\ scan = NoScan
    /\ got = NoSlice /\ block = NoBlock /\ Reverse = FALSE /\ runner = NoRunner
    /\ \E tlSize \in 0..MaxTlSize : layout = NSLIComponent(tlSize)
    /\ op = [name |-> "NSLIComponent", arg |-> <<>>, pre |-> NoPre]

\* tea.WindowSizeMsg, handed on as a ResizeMsg
NSLIResize ==
    /\ \E w \in TermWidths, h \in TermHeights :
          /\ layout' = NSLI_Resize(layout, w, h)
          /\ op' = [name |-> "ResizeMsg", arg |-> <<w, h>>, pre |-> NoPre]
    /\ out' = NoView
    /\ LayoutIdle

\* setStatus: the status line gets a text
NSLISetStatus ==
    /\ \E text \in {<<>>, <<1>>} :
          /\ layout' = [layout EXCEPT !.status = text]
          /\ op' = [name |-> "SpanSetContentMsg", arg |-> text, pre |-> NoPre]
    /\ out' = NoView
    /\ LayoutIdle

NSLIView ==
    /\ out' = [panic |-> NSLI_View(layout).panic,
               lines |-> NSLI_View(layout).lines, called |-> TRUE]
    /\ op' = [name |-> "View", arg |-> <<>>, pre |-> NoPre]
    /\ UNCHANGED layout
    /\ LayoutIdle

NextBorder ==
    \/ NSLIResize
    \/ NSLISetStatus
    \/ NSLIView

SpecBorder == InitBorder /\ [][NextBorder]_vars

\* C37: BorderedBox never reads past its inner view: for every terminal
\* size (w >= 0, h >= 0) and every tlSize, after the NSLI root handles the
\* resize, View() completes without an index-out-of-range; equivalently,
\* whenever a BorderedBox is not in its "too small" state, its inner
\* component's View() has at least hReserve lines.
C37_NeverReadsPast ==
    op.name = "View" => ~NSLI_View(layout).panic

(***************************************************************************)
(* The runner LSNI and LSLI return (SpecRunner).  runner is the record     *)
(*   wait        the argument of LSNI                                      *)
(*   job         "running", or "returned" once the job function returned   *)
(*   jobErr      what it returned: "nil" or "err" ("none" before)          *)
(*   jobStopped  the channel closed by the deferred function               *)
(*   jobEnd      the values waiting in the channel Go(ctx) returned        *)
(*   jobSent     the result of the job was sent on it                      *)
(*   app         "running", or "ended" once app.Run() returned             *)
(*   appEnd      the values waiting in the channel of the UI task          *)
(*   appSent     the result of app.Run() was sent on it                    *)
(*   quitBy      who has called app.Quit()                                 *)
(*   cancelled   ctx is done                                               *)
(*   pc          "select", "waitJob" (at <-jobStopped) or "returned"       *)
(* task.Task.Go (github.com/raohwork/task) runs the task in a goroutine    *)
(* and sends its result, once, on the channel it returns; Defer runs its   *)
(* function when the task returns; FromServer calls stop when ctx is done. *)
(***************************************************************************)
Quitters == {"user", "ctx", "job", "runner"}

NewRunner(wait) ==
    [wait |-> wait, job |-> "running", jobErr |-> "none", jobStopped |-> FALSE,
     jobEnd |-> <<>>, jobSent |-> FALSE, app |-> "running", appEnd |-> <<>>,
     appSent |-> FALSE, quitBy |-> {}, cancelled |-> FALSE, pc |-> "select"]

\* app.Quit() called by who
app_Quit(r, who) == [r EXCEPT !.quitBy = @ \cup {who}]

\* mutant: the runner quits the UI whenever the job succeeded
LSNI_jobEnded_QuitAlways(r, err) ==
    IF err = "nil" THEN app_Quit(r, "runner") ELSE r

\* case err := <-jobEnd of the select, the value received being err
LSNI_jobEnded(r, err) ==
    IF err = "nil"
    THEN (IF ~r.wait THEN app_Quit(r, "runner") ELSE r)
    ELSE r

RunnerIdle ==
    UNCHANGED <<hScroll, vScroll, width, height, x, y, entries, lines,
                maxLineWidth, out, appended, pure, heap, scan, got, block,
                Reverse, layout>>

InitRunner ==
    /\ hScroll = FALSE /\ vScroll = FALSE
    /\ width = 0 /\ height = 0 /\ x = 0 /\ y = 0
    /\ lines = 0 /\ maxLineWidth = 0
    /\ out = NoView
    /\ entries = NewCircularBuffer(0)
    /\ appended = <<>>
    /\ pure = FALSE
    /\ heap = <<>>
    /\ scan = NoScan
    /\ got = NoSlice /\ block = NoBlock /\ Reverse = FALSE /\ layout = NoLayout
    /\ \E wait \in BOOLEAN : runner = NewRunner(wait)
    /\ op = [name |-> "LSNI", arg |-> <<>>, pre |-> NoPre]

RunnerBecomes(name, r) ==
    /\ runner' = r
    /\ op' = [name |-> name, arg |-> <<>>, pre |-> NoPre]
    /\ RunnerIdle

\* the job function returns err; the deferred function closes jobStopped
JobReturns ==
    /\ runner.job = "running"
    /\ \E err \in {"nil", "err"} :
          RunnerBecomes("JobReturns",
              [runner EXCEPT !.job = "returned", !.jobErr = err,
                             !.jobStopped = TRUE])

\* the goroutine of Go(ctx) sends the result of the job
JobSends ==
    /\ runner.job = "returned"
    /\ ~runner.jobSent
    /\ RunnerBecomes("JobSends",
           [runner EXCEPT !.jobEnd = <<runner.jobErr>>, !.jobSent = TRUE])

\* the job calls the quit function it was given
JobQuits ==
    /\ runner.job = "running"
    /\ RunnerBecomes("JobQuits", app_Quit(runner, "job"))

\* the user presses q or Ctrl+C: noSuguarComponent answers with tea.Quit
UserQuits ==
    /\ runner.app = "running"
    /\ RunnerBecomes("UserQuits", app_Quit(runner, "user"))

\* ctx is cancelled: the task made by FromServer calls its stop, app.Quit
CtxCancelled ==
    /\ ~runner.cancelled
    /\ RunnerBecomes("CtxCancelled",
           [app_Quit(runner, "ctx") EXCEPT !.cancelled = TRUE])

\* app.Run() returns, having been asked to quit
AppEnds ==
    /\ runner.app = "running"
    /\ runner.quitBy # {}
    /\ RunnerBecomes("AppEnds", [runner EXCEPT !.app = "ended"])

\* the goroutine of Go(ctx) sends the result of app.Run()
AppSends ==
    /\ runner.app = "ended"
    /\ ~runner.appSent
    /\ RunnerBecomes("AppSends",
           [runner EXCEPT !.appEnd = <<"ended">>, !.appSent = TRUE])

\* the select receives from jobEnd, and the loop goes round
RunnerJobEnd ==
    /\ runner.pc = "select"
    /\ runner.jobEnd # <<>>
    /\ RunnerBecomes("RunnerJobEnd",
           LSNI_jobEnded([runner EXCEPT !.jobEnd = <<>>], runner.jobEnd[1]))

\* the select receives from appEnd
RunnerAppEnd ==
    /\ runner.pc = "select"
    /\ runner.appEnd # <<>>
    /\ RunnerBecomes("RunnerAppEnd",
           [runner EXCEPT !.appEnd = <<>>, !.pc = "waitJob"])

\* <-jobStopped, and the runner returns
RunnerReturns ==
    /\ runner.pc = "waitJob"
    /\ runner.jobStopped
    /\ RunnerBecomes("RunnerReturns", [runner EXCEPT !.pc = "returned"])

NextRunner ==
    \/ JobReturns
    \/ JobSends
    \/ JobQuits
    \/ UserQuits
    \/ CtxCancelled
    \/ AppEnds
    \/ AppSends
    \/ RunnerJobEnd
    \/ RunnerAppEnd
    \/ RunnerReturns

SpecRunner == InitRunner /\ [][NextRunner]_vars

\* C32: LSNI/LSLI keep-alive rule: the runner itself asks the UI program to
\* quit only when the job function returned nil and wait is false; when the
\* job returned a non-nil error, or returned nil with wait true, the runner
\* never calls app.Quit and returns only after the UI program has ended by
\* other means (user key or context cancel); and the runner never returns
\* before the job function has returned.
C32_KeepAlive ==
    /\ "runner" \in runner.quitBy => (runner.jobErr = "nil" /\ ~runner.wait)
    /\ runner.pc = "returned" =>
          /\ runner.job = "returned"
          /\ runner.app = "ended"
          /\ (runner.jobErr = "err" \/ runner.wait) =>
                 (runner.quitBy # {} /\ "runner" \notin runner.quitBy)

\* the job succeeded, wait is true, the user quit, and the runner returned
C32_Witness ==
    /\ runner.pc = "returned" /\ runner.wait /\ runner.jobErr = "nil"
    /\ runner.quitBy = {"user"}

\* the job failed and the runner returned after the context was cancelled
C32_WitnessError ==
    /\ runner.pc = "returned" /\ ~runner.wait /\ runner.jobErr = "err"
    /\ runner.quitBy = {"ctx"}

\* the job succeeded, wait is false and the runner alone quit the UI
C32_WitnessQuit ==
    /\ runner.pc = "returned" /\ ~runner.wait /\ runner.quitBy = {"runner"}

====
